---- MODULE Spec2Model ----
(***************************************************************************)
(* Streaming tool-orchestration engine of the chat backend (api/main.py):  *)
(* the /chat/stream generator, its heuristic tool trigger, the per-agent   *)
(* history and the outward server-sent-event sequence.                     *)
(*                                                                         *)
(* Text is modelled as a sequence of one-character strings, so that        *)
(* concatenation, strip(), lower() and substring search are computed as    *)
(* the Python code computes them.                                          *)
(***************************************************************************)
EXTENDS Integers, Sequences, FiniteSets, TLC

\* Python's None; NoneText is None where the value is otherwise a text.
None == "None"

NoneText == <<"None">>

\* ------------------------------------------------------------------------
\* Text helpers (str.strip, str.lower, the `in` substring operator)
\* ------------------------------------------------------------------------
Whitespace == {" ", "\n", "\t"}

Upper == [A |-> "a", B |-> "b", C |-> "c", D |-> "d", E |-> "e", F |-> "f",
          G |-> "g", H |-> "h", I |-> "i", J |-> "j", K |-> "k", L |-> "l",
          M |-> "m", N |-> "n", O |-> "o", P |-> "p", Q |-> "q", R |-> "r",
          S |-> "s", T |-> "t", U |-> "u", V |-> "v", W |-> "w", X |-> "x",
          Y |-> "y", Z |-> "z"]

LowerChar(c) == IF c \in DOMAIN Upper THEN Upper[c] ELSE c

Lower(s) == [i \in 1..Len(s) |-> LowerChar(s[i])]

RECURSIVE LStrip(_)
LStrip(s) == IF s # <<>> /\ Head(s) \in Whitespace THEN LStrip(Tail(s)) ELSE s

RECURSIVE RStrip(_)
RStrip(s) ==
  IF s # <<>> /\ s[Len(s)] \in Whitespace THEN RStrip(SubSeq(s, 1, Len(s) - 1)) ELSE s

Strip(s) == RStrip(LStrip(s))

\* `p in s` for Python strings.
Contains(s, p) ==
  \E i \in 1..(Len(s) - Len(p) + 1) : SubSeq(s, i, i + Len(p) - 1) = p

RECURSIVE Join(_)
Join(chunks) == IF chunks = <<>> THEN <<>> ELSE Head(chunks) \o Join(Tail(chunks))

\* ------------------------------------------------------------------------
\* Heuristic tool trigger (main.py:90-125)
\* ------------------------------------------------------------------------
_TOOL_TRIGGER_PHRASES ==
  << <<"e","x","p","o","r","t">>,
     <<"s","a","v","e"," ","t","o"," ","p","d","f">>,
     <<"s","a","v","e"," ","a","s"," ","p","d","f">>,
     <<"s","a","v","e"," ","t","o"," ","d","o","c","x">>,
     <<"s","a","v","e"," ","a","s"," ","d","o","c","x">>,
     <<"e","x","p","o","r","t"," ","t","o"," ","p","d","f">>,
     <<"e","x","p","o","r","t"," ","t","o"," ","d","o","c","x">>,
     <<"e","x","p","o","r","t"," ","a","s"," ","p","d","f">>,
     <<"e","x","p","o","r","t"," ","a","s"," ","d","o","c","x">>,
     <<"g","o","o","g","l","e"," ","d","o","c">>,
     <<"g","o","o","g","l","e"," ","d","o","c","s">>,
     <<"g","e","n","e","r","a","t","e"," ","i","m","a","g","e">>,
     <<"g","e","n","e","r","a","t","e"," ","a"," ","i","m","a","g","e">>,
     <<"c","r","e","a","t","e"," ","i","m","a","g","e">>,
     <<"c","r","e","a","t","e"," ","a"," ","i","m","a","g","e">>,
     <<"d","r","a","w"," ">>,
     <<"d","r","a","w"," ","a">>,
     <<"p","i","c","t","u","r","e"," ","o","f">>,
     <<"i","m","a","g","e"," ","o","f">>,
     <<"g","e","n","e","r","a","t","e"," ","a"," ","p","i","c","t","u","r","e">>,
     <<"r","e","s","i","z","e"," ","i","m","a","g","e">>,
     <<"c","r","o","p"," ","i","m","a","g","e">>,
     <<"c","o","n","v","e","r","t"," ","i","m","a","g","e">>,
     <<"r","e","s","i","z","e"," ","t","h","e"," ","i","m","a","g","e">>,
     <<"m","a","k","e"," ","a"," ","p","d","f">>,
     <<"m","a","k","e"," ","a"," ","d","o","c","x">>,
     <<"w","r","i","t","e"," ","t","o"," ","p","d","f">>,
     <<"w","r","i","t","e"," ","t","o"," ","d","o","c","x">> >>

\* Variant of _user_might_need_tools: the message is not lower-cased.
_user_might_need_tools_case_sensitive(user_message) ==
  IF user_message = NoneText \/ user_message = <<>> \/ Strip(user_message) = <<>>
  THEN FALSE
  ELSE LET lower == Strip(user_message)
       IN  \E k \in 1..Len(_TOOL_TRIGGER_PHRASES) : Contains(lower, _TOOL_TRIGGER_PHRASES[k])

_user_might_need_tools(user_message) ==
  IF user_message = NoneText \/ user_message = <<>> \/ Strip(user_message) = <<>>
  THEN FALSE
  ELSE LET lower == Lower(Strip(user_message))
       IN  \E k \in 1..Len(_TOOL_TRIGGER_PHRASES) : Contains(lower, _TOOL_TRIGGER_PHRASES[k])

\* Variant of _choose_tool_name: the pdf check comes before the docx/word check.
_choose_tool_name_pdf_first(user_message) ==
  IF user_message = NoneText \/ user_message = <<>>
  THEN None
  ELSE LET lower == Lower(Strip(user_message))
       IN  IF Contains(lower, <<"r","e","s","i","z","e">>) THEN "resize_image"
           ELSE IF Contains(lower, <<"c","r","o","p">>) THEN "crop_image"
           ELSE IF Contains(lower, <<"c","o","n","v","e","r","t">>) THEN "convert_image"
           ELSE IF Contains(lower, <<"p","d","f">>) THEN "export_pdf"
           ELSE IF Contains(lower, <<"d","o","c","x">>) \/ Contains(lower, <<"w","o","r","d">>)
                THEN "export_docx"
           ELSE IF \/ Contains(lower, <<"i","m","a","g","e">>)
                   \/ Contains(lower, <<"d","r","a","w">>)
                   \/ Contains(lower, <<"p","i","c","t","u","r","e">>)
                THEN "generate_image"
           ELSE None

_choose_tool_name(user_message) ==
  IF user_message = NoneText \/ user_message = <<>>
  THEN None
  ELSE LET lower == Lower(Strip(user_message))
       IN  IF Contains(lower, <<"r","e","s","i","z","e">>) THEN "resize_image"
           ELSE IF Contains(lower, <<"c","r","o","p">>) THEN "crop_image"
           ELSE IF Contains(lower, <<"c","o","n","v","e","r","t">>) THEN "convert_image"
           ELSE IF Contains(lower, <<"d","o","c","x">>) \/ Contains(lower, <<"w","o","r","d">>)
                THEN "export_docx"
           ELSE IF Contains(lower, <<"p","d","f">>) THEN "export_pdf"
           ELSE IF \/ Contains(lower, <<"i","m","a","g","e">>)
                   \/ Contains(lower, <<"d","r","a","w">>)
                   \/ Contains(lower, <<"p","i","c","t","u","r","e">>)
                THEN "generate_image"
           ELSE None

\* The characters of each tool name (the name as it appears inside text).
NameChars ==
  [ export_pdf |-> <<"e","x","p","o","r","t","_","p","d","f">>,
    export_docx |-> <<"e","x","p","o","r","t","_","d","o","c","x">>,
    generate_image |-> <<"g","e","n","e","r","a","t","e","_","i","m","a","g","e">>,
    resize_image |-> <<"r","e","s","i","z","e","_","i","m","a","g","e">>,
    crop_image |-> <<"c","r","o","p","_","i","m","a","g","e">>,
    convert_image |-> <<"c","o","n","v","e","r","t","_","i","m","a","g","e">>,
    export_xlsx |-> <<"e","x","p","o","r","t","_","x","l","s","x">>,
    load_skill |-> <<"l","o","a","d","_","s","k","i","l","l">> ]

\* ------------------------------------------------------------------------
\* Textual tool-call recovery (main.py:128-139) and the JSON texts in play
\* ------------------------------------------------------------------------
EmptyDict == [k \in {} |-> None]

\* json.loads on the argument texts that occur; every other text is malformed
\* (ok = FALSE stands for the JSONDecodeError it raises).
JsonLoads(raw) ==
  IF raw = <<"{","}">> THEN [ok |-> TRUE, value |-> EmptyDict]
  ELSE IF raw = <<"{","\"","a","\"",":","1","}">> THEN [ok |-> TRUE, value |-> [a |-> 1]]
  ELSE IF raw = <<"{","\"","p","r","o","j","e","c","t","_","k","e","y","\"",":","\"","p","2","\"","}">> THEN [ok |-> TRUE, value |-> [project_key |-> "p2"]]
  ELSE [ok |-> FALSE, value |-> EmptyDict]

\* `not d.get("project_key")`
LacksProjectKey(d) == "project_key" \notin DOMAIN d \/ d["project_key"] = ""

DictSet(d, k, v) == [x \in (DOMAIN d) \cup {k} |-> IF x = k THEN v ELSE d[x]]

\* Truthiness of an optional string (None and "" are falsy).
Truthy(v) == v # None /\ v # ""

\* First index >= i of s that holds no whitespace (Len(s) + 1 if none).
RECURSIVE SkipWs(_, _)
SkipWs(s, i) == IF i <= Len(s) /\ s[i] \in Whitespace THEN SkipWs(s, i + 1) ELSE i

\* The ends j of group 1 when  name\s*\(\s*(\{.*\})\s*\)  matches at position i.
GroupEnds(text, name, i) ==
  LET p == SkipWs(text, i + Len(name))
      b == SkipWs(text, p + 1)
  IN  IF /\ i + Len(name) - 1 <= Len(text)
         /\ SubSeq(text, i, i + Len(name) - 1) = name
         /\ p <= Len(text) /\ text[p] = "("
         /\ b <= Len(text) /\ text[b] = "{"
      THEN { j \in (b + 1)..Len(text) :
               /\ text[j] = "}"
               /\ SkipWs(text, j + 1) <= Len(text)
               /\ text[SkipWs(text, j + 1)] = ")" }
      ELSE {}

GroupStart(text, name, i) == SkipWs(text, SkipWs(text, i + Len(name)) + 1)

Max(S) == CHOOSE x \in S : \A y \in S : y <= x

Min(S) == CHOOSE x \in S : \A y \in S : x <= y

\* found = FALSE is the None the function returns.
_extract_tool_args(text, tool_name) ==
  IF text = <<>> THEN [found |-> FALSE, args |-> EmptyDict]
  ELSE LET name  == NameChars[tool_name]
           starts == { i \in 1..Len(text) : GroupEnds(text, name, i) # {} }
       IN  IF starts = {} THEN [found |-> FALSE, args |-> EmptyDict]
           ELSE LET i   == Min(starts)
                    raw == SubSeq(text, GroupStart(text, name, i), Max(GroupEnds(text, name, i)))
                    val == JsonLoads(raw)
                IN  [found |-> val.ok, args |-> val.value]

\* ------------------------------------------------------------------------
\* Program constants
\* ------------------------------------------------------------------------
max_tool_iterations == 3

\* Keys of the allowed_tools dict (main.py:518-525) with their event names.
allowed_tools ==
  [ export_pdf     |-> "pdf_saved",
    export_docx    |-> "docx_saved",
    generate_image |-> "image_generated",
    resize_image   |-> "image_updated",
    crop_image     |-> "image_updated",
    convert_image  |-> "image_updated" ]

\* Keys of AGENT_PERSONA_FILES.
AGENT_PERSONA_FILES ==
  { <<"c","r","e","a","t","i","v","e","_","d","i","r","e","c","t","o","r">>,
    <<"a","r","t","_","d","i","r","e","c","t","o","r">>,
    <<"t","e","c","h","n","i","c","a","l","_","d","i","r","e","c","t","o","r">> }

ReplaceChar(s, from, to) == [i \in 1..Len(s) |-> IF s[i] = from THEN to ELSE s[i]]

normalize_agent_id(agent) ==
  IF agent = NoneText \/ agent = <<>>
  THEN <<"c","r","e","a","t","i","v","e","_","d","i","r","e","c","t","o","r">>
  ELSE LET cleaned == ReplaceChar(ReplaceChar(Lower(Strip(agent)), "-", "_"), " ", "_")
       IN  IF cleaned \in AGENT_PERSONA_FILES THEN cleaned ELSE <<"c","r","e","a","t","i","v","e","_","d","i","r","e","c","t","o","r">>

\* ------------------------------------------------------------------------
\* Bounds and the inputs drawn from the environment
\* ------------------------------------------------------------------------
\* Number of stream chunks the provider delivers to one flow (all rounds).
MaxChunks == 3

Flows == {1, 2}

\* Request bodies (ChatRequest): agent, message, messages, rag.project_key.
ChatMessage(role, content) == [role |-> role, content |-> content]

Bodies ==
  { [agent |-> NoneText, message |-> <<"h","i">>, messages |-> <<>>, project_key |-> None],
    [agent |-> <<"A","r","t","-","D","i","r","e","c","t","o","r">>, message |-> <<"D","r","a","w"," ","a"," ","d","r","a","g","o","n">>, messages |-> <<>>,
     project_key |-> "p1"],
    [agent |-> NoneText, message |-> NoneText,
     messages |-> << ChatMessage("user", <<"e","x","p","o","r","t"," ","i","t">>) >>, project_key |-> None],
    [agent |-> <<"q","a">>, message |-> <<" "," ">>, messages |-> <<>>, project_key |-> None],
    [agent |-> NoneText, message |-> <<"p","l","e","a","s","e"," ","r","e","s","i","z","e"," ","t","h","i","s"," ","i","m","a","g","e">>, messages |-> <<>>,
     project_key |-> None] }

\* Retrieved chunks (rag.RetrieveResult): two chunks of one source, one of another.
RetrieveResult(source_id, chunk_index, title, content) ==
  [source_id |-> source_id, chunk_index |-> chunk_index, title |-> title,
   content |-> content, score |-> chunk_index + 1]

SomeChunks ==
  << RetrieveResult("s1", 0, <<"T","1">>, <<"x">>),
     RetrieveResult("s2", 3, <<"T","2">>, <<"y">>),
     RetrieveResult("s1", 1, <<"T","1">>, <<"z">>) >>

\* What lines 329-370 can do: tool_project_key left unassigned because
\* get_default_project_key_value raised, assigned a key or None, and then
\* retrieve_chunks raising, returning nothing or returning chunks.
Unbound == "Unbound"

RagOutcomes ==
  { [key |-> Unbound, raised |-> TRUE,  chunks |-> <<>>],
    [key |-> "p1",    raised |-> TRUE,  chunks |-> <<>>],
    [key |-> "p1",    raised |-> FALSE, chunks |-> <<>>],
    [key |-> None,    raised |-> FALSE, chunks |-> SomeChunks] }

\* A streamed tool-call fragment (delta.tool_calls[k]); None/empty = absent.
Fragment(index, id, name, arguments) ==
  [index |-> index, id |-> id, name |-> name, arguments |-> arguments]

\* A stream chunk: choices[0].delta with its content and tool_calls.
Chunk(content, tool_calls) == [content |-> content, tool_calls |-> tool_calls]

\* The provider's repertoire: a text, a textual call of generate_image,
\* a call of a tool outside the allow-list in slot 0, a call of export_pdf
\* in slot 1, and a trailing argument fragment that makes slot 1 malformed.
FlowChunks ==
  { Chunk(<<"a">>, <<>>),
    Chunk(<<"g","e","n","e","r","a","t","e","_","i","m","a","g","e","(","{","\"","a","\"",":","1","}",")">>, <<>>),
    Chunk(<<>>, << Fragment(0, "call_0", "export_xlsx", <<"{","}">>) >>),
    Chunk(<<>>, << Fragment(1, "call_1", "export_pdf", <<"{","\"","a","\"",":","1","}">>) >>),
    Chunk(<<>>, << Fragment(1, None, None, <<"{">>) >>) }

\* run_*_tool either returns a result or raises.
ToolOutcomes == {"ok", "raise"}

\* ------------------------------------------------------------------------
\* State
\* ------------------------------------------------------------------------
VARIABLES
  flow,             \* [Flows -> the request, the generator's locals and position,
                    \*           and what the flow has done to the outside]
  AGENT_HISTORIES,  \* the module-level dict: agent id -> list of ChatMessage
  history_dir,      \* the files of LOCAL_DATA_DIR/history: agent id -> file text
  reply,            \* the last request to a /chat/history endpoint and its response
  wire              \* the last sse_event(event, data) call and the bytes it returned

vars == <<flow, AGENT_HISTORIES, history_dir, reply, wire>>

\* Positions of a flow:
\*   idle           no request received
\*   missing_key    missing_key() created, not started
\*   mk_error       missing_key() suspended at `yield error`
\*   start          generator() created, not started
\*   streaming      inside `for chunk in stream`
\*   after_reject   suspended at the `yield error` of a rejected batch
\*   after_tool     suspended at the yield of the tool's event
\*   after_fallback suspended at the yield of the textual-recovery event
\*   after_sources  suspended at `yield sources`
\*   after_error    suspended at `yield error` of the outermost handler
\*   done           the `done` event has been yielded
\*   closed         the client went away and the generator was closed
NoCall == [tool_id |-> "", tool_name |-> "", raw_args |-> <<>>, tool_content |-> [json |-> None]]

IdleFlow ==
  [ pc |-> "idle",
    body |-> [agent |-> NoneText, message |-> NoneText, messages |-> <<>>, project_key |-> None],
    api_key |-> FALSE,
    agent_id |-> <<>>,
    use_history |-> FALSE,
    retrieved |-> <<>>,
    sources_payload |-> <<>>,
    tool_project_key |-> Unbound,
    input_messages |-> <<>>,
    pending_messages |-> <<>>,
    tool_iterations |-> 0,
    use_tools_this_turn |-> FALSE,
    forced_tool_name |-> None,
    assistant_chunks |-> <<>>,
    tool_call_map |-> <<>>,
    assistant_text |-> <<>>,
    call |-> NoCall,
    at_yield |-> FALSE,
    emitted |-> <<>>,       \* the sse_event(event, data) values yielded, in order
    requests |-> <<>>,      \* the create_kwargs of every chat.completions.create call
    executed |-> <<>>,      \* every call of a run_*_tool function
    rag_calls |-> 0,        \* calls of retrieve_chunks
    rag_raised |-> FALSE,   \* the retrieval step (main.py:330-367) raised
    received |-> <<>>,      \* the texts the provider streamed, with their round
    fragments |-> <<>>,     \* the tool-call fragments streamed in the current round
    appended |-> <<>>,      \* the messages the flow appended to its agent's history
    disconnected |-> FALSE, \* the client has gone away
    delivered |-> 0 ]       \* stream chunks consumed

\* No /chat/history request has been answered.
NoReply == [op |-> None, agent_id |-> <<>>, sent |-> <<>>, status |-> 0, body |-> <<>>]

\* sse_event has not been called.
NoWire == [event |-> <<>>, data |-> <<>>, bytes |-> <<>>]

Init ==
  /\ flow = [f \in Flows |-> IdleFlow]
  /\ AGENT_HISTORIES = <<>>
  /\ history_dir = <<>>
  /\ reply = NoReply
  /\ wire = NoWire

\* ------------------------------------------------------------------------
\* Helpers of the generator
\* ------------------------------------------------------------------------
\* yield sse_event(event, data) at the given line of main.py, recorded with
\* the number of the round (provider requests issued so far) it happens in.
Event(line, round, event, data) ==
  [event |-> event, data |-> data, line |-> line, round |-> round]

Emit(fl, line, event, data) ==
  [fl EXCEPT !.emitted = Append(@, Event(line, Len(fl.requests), event, data))]

\* json.dumps: the value tagged as JSON text.
JsonDumps(v) == [json |-> v]

HistoryOf(H, agent) == IF agent \in DOMAIN H THEN H[agent] ELSE <<>>

\* Variant of HistoryAppend: setdefault hands every agent the same list
\* object, so an append under one key shows under all of them.
HistoryAppend_shared_list(H, agent, msg) ==
  LET shared == IF DOMAIN H = {} THEN <<>> ELSE H[CHOOSE a \in DOMAIN H : TRUE]
  IN  [a \in (DOMAIN H) \cup {agent} |-> Append(shared, msg)]

\* Variant of HistoryAppend: history.insert(0, msg), the turn is put at the
\* head of the list.
HistoryAppend_at_head(H, agent, msg) ==
  [a \in (DOMAIN H) \cup {agent} |->
     IF a = agent THEN <<msg>> \o HistoryOf(H, agent) ELSE H[a]]

\* history.append(...) on the list stored under the agent id (setdefault).
HistoryAppend(H, agent, msg) ==
  [a \in (DOMAIN H) \cup {agent} |->
     IF a = agent THEN Append(HistoryOf(H, agent), msg) ELSE H[a]]

\* except Exception as exc: yield sse_event("error", str(exc))   (main.py:644-645)
Raise(fl, exc) == [Emit(fl, 645, "error", <<exc>>) EXCEPT !.pc = "after_error", !.at_yield = FALSE]

\* Variant of Finish: the sources event is yielded whatever sources_payload holds.
Finish_always_sources(fl) ==
  [Emit(fl, 642, "sources", JsonDumps(fl.sources_payload)) EXCEPT !.pc = "after_sources",
                                                                 !.at_yield = FALSE]

\* main.py:641-643
Finish(fl) ==
  IF fl.sources_payload # <<>>
  THEN [Emit(fl, 642, "sources", JsonDumps(fl.sources_payload)) EXCEPT !.pc = "after_sources",
                                                                   !.at_yield = FALSE]
  ELSE [Emit(fl, 643, "done", <<>>) EXCEPT !.pc = "done", !.at_yield = FALSE]

get_tools ==
  << "export_pdf", "export_docx", "generate_image", "resize_image", "crop_image",
     "convert_image", "export_xlsx", "load_skill" >>

\* Variant of include_tools: the round number is not consulted.
include_tools_first_round_rule(fl) ==
  fl.use_tools_this_turn \/ fl.forced_tool_name # None

include_tools(fl) ==
  fl.use_tools_this_turn \/ fl.tool_iterations > 0 \/ fl.forced_tool_name # None

\* main.py:440-450; tools = <<>> and tool_choice = <<>> stand for an absent key.
create_kwargs(fl) ==
  [ messages |-> fl.pending_messages,
    stream |-> TRUE,
    tools |-> IF include_tools(fl) THEN get_tools ELSE <<>>,
    tool_choice |->
      IF ~include_tools(fl) THEN <<>>
      ELSE IF Truthy(fl.forced_tool_name) THEN <<"function", fl.forced_tool_name>>
      ELSE IF fl.use_tools_this_turn THEN <<"required">> ELSE <<"auto">> ]

\* Variant of LoopTop: `while True`, the iteration count is not consulted.
LoopTop_unbounded(fl, createOk) ==
  LET asked == [fl EXCEPT !.requests = Append(@, create_kwargs(fl)),
                          !.assistant_chunks = <<>>,
                          !.tool_call_map = <<>>,
                          !.fragments = <<>>,
                          !.at_yield = FALSE]
  IN  IF createOk THEN [asked EXCEPT !.pc = "streaming"]
      ELSE Raise(asked, "APIError")

\* Variant of LoopTop: `<=` in the loop condition.
LoopTop_inclusive(fl, createOk) ==
  IF fl.tool_iterations <= max_tool_iterations
  THEN LET asked == [fl EXCEPT !.requests = Append(@, create_kwargs(fl)),
                               !.assistant_chunks = <<>>,
                               !.tool_call_map = <<>>,
                               !.fragments = <<>>,
                               !.at_yield = FALSE]
       IN  IF createOk THEN [asked EXCEPT !.pc = "streaming"]
           ELSE Raise(asked, "APIError")
  ELSE Finish(fl)

\* The head of the while loop (main.py:435-452): another provider request,
\* which may raise, or the end of the loop.
LoopTop(fl, createOk) ==
  IF fl.tool_iterations < max_tool_iterations
  THEN LET asked == [fl EXCEPT !.requests = Append(@, create_kwargs(fl)),
                               !.assistant_chunks = <<>>,
                               !.tool_call_map = <<>>,
                               !.fragments = <<>>,
                               !.at_yield = FALSE]
       IN  IF createOk THEN [asked EXCEPT !.pc = "streaming"]
           ELSE Raise(asked, "APIError")
  ELSE Finish(fl)

\* ------------------------------------------------------------------------
\* Request handling before the first round (main.py:280-433)
\* ------------------------------------------------------------------------
\* main.py:352-366: group the retrieved chunks by source, in first-seen order.
RECURSIVE GroupSources(_, _)
GroupSources(items, grouped) ==
  IF items = <<>> THEN grouped
  ELSE LET item == Head(items)
           at   == { k \in 1..Len(grouped) : grouped[k].source_id = item.source_id }
       IN  IF at = {}
           THEN GroupSources(Tail(items),
                  Append(grouped, [source_id |-> item.source_id, title |-> item.title,
                                   chunks |-> <<item.chunk_index>>,
                                   scores |-> <<item.score>>]))
           ELSE LET k == CHOOSE k \in at : TRUE
                IN  GroupSources(Tail(items),
                      [grouped EXCEPT ![k].chunks = Append(@, item.chunk_index),
                                      ![k].scores = Append(@, item.score)])

Digits == <<"0", "1", "2", "3", "4", "5", "6", "7", "8", "9">>

\* str() of a chunk index (indices below 10 occur).
IntStr(n) == <<Digits[n + 1]>>

\* main.py:374-377
FormatChunk(item) ==
  <<"[","S","o","u","r","c","e",":"," ">> \o item.title \o <<" ","|"," ","c","h","u","n","k"," ">> \o IntStr(item.chunk_index) \o <<"]"," ">>
    \o item.content

RECURSIVE JoinWith(_, _)
JoinWith(sep, parts) ==
  IF parts = <<>> THEN <<>>
  ELSE IF Len(parts) = 1 THEN parts[1]
  ELSE parts[1] \o sep \o JoinWith(sep, Tail(parts))

\* Variant of context_block: built without the `if retrieved` test.
context_block_unconditional(retrieved) ==
  <<"C","O","N","T","E","X","T",":","\n">>
    \o JoinWith(<<"\n","\n">>, [k \in 1..Len(retrieved) |-> FormatChunk(retrieved[k])])

\* main.py:372-378
context_block(retrieved) ==
  IF retrieved = <<>> THEN <<>>
  ELSE <<"C","O","N","T","E","X","T",":","\n">>
         \o JoinWith(<<"\n","\n">>, [k \in 1..Len(retrieved) |-> FormatChunk(retrieved[k])])

\* What load_persona_text / load_persona_description_prompt return for an
\* agent id: the persona file of art_director is missing (both empty), the
\* other files are loaded.
PersonaLoad(agent) ==
  IF agent = <<"a","r","t","_","d","i","r","e","c","t","o","r">>
  THEN [text |-> <<>>, description |-> <<>>]
  ELSE [text |-> <<"{","}">>, description |-> <<"Y","o","u"," ","d","i","r","e","c","t",".">>]

\* get_supabase_client + get_project_display_name for rag.project_key:
\* raises, finds no name, or finds the name.
ProjectLookups == {"raise", None, "Game"}

\* main.py:296-317; the fixed sentences are abridged.
persona_prompt(persona, project_name, project_key) ==
  (IF persona.text # <<>> THEN <<"*","*","*"," ","P","E","R","S","O","N","A"," ","*","*","*","\n">> \o persona.text ELSE <<>>)
    \o <<"\n","*","*","*"," ","P","R","O","J","E","C","T"," ","*","*","*","\n">>
    \o <<project_name>>
    \o (IF ~Truthy(project_key) THEN <<".">> ELSE <<"."," ","k","e","y"," ">> \o <<project_key>> \o <<".">>)

\* main.py:380-386
rag_system_prompt(persona) ==
  (IF persona.description # <<>> THEN persona.description ELSE <<"Y","o","u"," ","a","r","e"," ","a"," ","g","a","m","e"," ","d","e","v","e","l","o","p","m","e","n","t"," ","e","x","p","e","r","t",".">>)
    \o <<" ","U","s","e"," ","p","r","o","v","i","d","e","d"," ","c","o","n","t","e","x","t",".">>

\* main.py:387-394
tool_instruction == <<"I","f"," ","t","h","e"," ","u","s","e","r"," ","e","x","p","l","i","c","i","t","l","y"," ","r","e","q","u","e","s","t","s"," ","s","a","v","i","n","g">>

\* main.py:404-411
system_messages(persona, project_name, project_key, retrieved) ==
  << [role |-> "system", content |-> rag_system_prompt(persona)],
     [role |-> "system", content |-> tool_instruction] >>
  \o (IF persona_prompt(persona, project_name, project_key) # <<>>
      THEN << [role |-> "system",
               content |-> persona_prompt(persona, project_name, project_key)] >>
      ELSE <<>>)
  \o (IF context_block(retrieved) # <<>>
      THEN << [role |-> "system", content |-> context_block(retrieved)] >>
      ELSE <<>>)

TextPresent(t) == t # NoneText /\ t # <<>>

\* main.py:323-326: the content of the last user message of body.messages,
\* NoneText if there is none.
last_user(messages) ==
  LET at == { k \in 1..Len(messages) : messages[k].role = "user" }
  IN  IF at = {} THEN NoneText ELSE messages[Max(at)].content

\* main.py:327
rag_query(b) ==
  IF TextPresent(b.message) THEN Strip(b.message)
  ELSE IF last_user(b.messages) # NoneText THEN last_user(b.messages) ELSE <<>>

\* main.py:431
user_text_for_tools(b) ==
  IF TextPresent(b.message) THEN Strip(b.message)
  ELSE IF last_user(b.messages) # NoneText THEN Strip(last_user(b.messages)) ELSE <<>>

\* Variant of use_history: `body.message is not None`, a blank message
\* counts.
use_history_message_present(b) == b.message # NoneText

\* main.py:396
use_history(b) == b.message # NoneText /\ Strip(b.message) # <<>>

\* POST /chat/stream (main.py:280-289, 648): the request arrives and the
\* response is created around missing_key() or generator().
chat_stream_with(f, bodies, keys) ==
  /\ flow[f].pc = "idle"
  /\ \E b \in bodies, key \in keys :
       flow' = [flow EXCEPT ![f] = [@ EXCEPT !.body = b, !.api_key = key,
                                             !.pc = IF key THEN "start" ELSE "missing_key"]]
  /\ UNCHANGED <<AGENT_HISTORIES, history_dir, reply, wire>>

\* Variant of chat_stream: the credential check is missing.
chat_stream_no_key_check(f) ==
  /\ flow[f].pc = "idle"
  /\ \E b \in Bodies, key \in BOOLEAN :
       flow' = [flow EXCEPT ![f] = [@ EXCEPT !.body = b, !.api_key = key, !.pc = "start"]]
  /\ UNCHANGED <<AGENT_HISTORIES, history_dir, reply, wire>>

\* Any request body, with or without OPENAI_API_KEY in the environment.
chat_stream(f) == chat_stream_with(f, Bodies, BOOLEAN)

\* missing_key(): yield error (main.py:285)
missing_key_error(f) ==
  /\ flow[f].pc = "missing_key"
  /\ flow' = [flow EXCEPT ![f] =
                [Emit(@, 285, "error", <<"Missing OPENAI_API_KEY">>) EXCEPT !.pc = "mk_error"]]
  /\ UNCHANGED <<AGENT_HISTORIES, history_dir, reply, wire>>

\* missing_key(): yield done (main.py:286)
missing_key_done(f) ==
  /\ flow[f].pc = "mk_error"
  /\ flow' = [flow EXCEPT ![f] = [Emit(@, 286, "done", <<>>) EXCEPT !.pc = "done"]]
  /\ UNCHANGED <<AGENT_HISTORIES, history_dir, reply, wire>>

\* Variant of generator_start: no try block around the retrieval, its
\* exception reaches the outermost handler.
generator_start_retrieval_unguarded(f) ==
  /\ flow[f].pc = "start"
  /\ UNCHANGED <<history_dir, reply, wire>>
  /\ \E fl \in {flow[f]} :
     \E b \in {fl.body} :
     \E agent \in {normalize_agent_id(b.agent)} :
     \E lookup \in (IF Truthy(b.project_key) THEN ProjectLookups ELSE {None}),
        rag \in (IF rag_query(b) # <<>> THEN RagOutcomes
                 ELSE {[key |-> Unbound, raised |-> FALSE, chunks |-> <<>>]}),
        createOk \in BOOLEAN :
       IF lookup = "raise" \/ rag.raised
       THEN /\ flow' = [flow EXCEPT ![f] = Raise([fl EXCEPT !.agent_id = agent,
                                                            !.rag_raised = lookup # "raise"],
                                                 "RuntimeError")]
            /\ UNCHANGED <<AGENT_HISTORIES, history_dir, reply, wire>>
       ELSE \E retrieved \in {IF rag.raised THEN <<>> ELSE rag.chunks} :
            \E H1 \in {IF use_history(b)
                       THEN HistoryAppend(AGENT_HISTORIES, agent,
                                          ChatMessage("user", Strip(b.message)))
                       ELSE AGENT_HISTORIES} :
            \E base_messages \in {IF use_history(b) THEN H1[agent] ELSE b.messages} :
            \E input \in {system_messages(PersonaLoad(agent),
                                          IF Truthy(lookup) THEN lookup ELSE "Unspecified",
                                          b.project_key, retrieved) \o base_messages} :
            \E text \in {user_text_for_tools(b)} :
            \E fl1 \in {[fl EXCEPT
                          !.agent_id = agent,
                          !.use_history = use_history(b),
                          !.retrieved = retrieved,
                          !.sources_payload = GroupSources(retrieved, <<>>),
                          !.tool_project_key = rag.key,
                          !.rag_calls = IF rag_query(b) # <<>> /\ rag.key # Unbound
                                        THEN @ + 1 ELSE @,
                          !.rag_raised = rag.raised,
                          !.appended = IF use_history(b)
                                       THEN <<ChatMessage("user", Strip(b.message))>>
                                       ELSE <<>>,
                          !.input_messages = input,
                          !.pending_messages = input,
                          !.tool_iterations = 0,
                          !.use_tools_this_turn = _user_might_need_tools(text),
                          !.forced_tool_name = _choose_tool_name(text)]} :
              /\ AGENT_HISTORIES' = H1
              /\ flow' = [flow EXCEPT ![f] = LoopTop(fl1, createOk)]

\* generator() from its start to the first provider request (main.py:291-452).
\* There is no suspension point in this stretch.
generator_start_with(f, rags) ==
  /\ flow[f].pc = "start"
  /\ UNCHANGED <<history_dir, reply, wire>>
  /\ \E fl \in {flow[f]} :
     \E b \in {fl.body} :
     \E agent \in {normalize_agent_id(b.agent)} :
     \E lookup \in (IF Truthy(b.project_key) THEN ProjectLookups ELSE {None}),
        rag \in (IF rag_query(b) # <<>> THEN rags
                 ELSE {[key |-> Unbound, raised |-> FALSE, chunks |-> <<>>]}),
        createOk \in BOOLEAN :
       IF lookup = "raise"
       THEN /\ flow' = [flow EXCEPT ![f] = Raise([fl EXCEPT !.agent_id = agent], "RuntimeError")]
            /\ UNCHANGED <<AGENT_HISTORIES, history_dir, reply, wire>>
       ELSE \E retrieved \in {IF rag.raised THEN <<>> ELSE rag.chunks} :
            \E H1 \in {IF use_history(b)
                       THEN HistoryAppend(AGENT_HISTORIES, agent,
                                          ChatMessage("user", Strip(b.message)))
                       ELSE AGENT_HISTORIES} :
            \E base_messages \in {IF use_history(b) THEN H1[agent] ELSE b.messages} :
            \E input \in {system_messages(PersonaLoad(agent),
                                          IF Truthy(lookup) THEN lookup ELSE "Unspecified",
                                          b.project_key, retrieved) \o base_messages} :
            \E text \in {user_text_for_tools(b)} :
            \E fl1 \in {[fl EXCEPT
                          !.agent_id = agent,
                          !.use_history = use_history(b),
                          !.retrieved = retrieved,
                          !.sources_payload = GroupSources(retrieved, <<>>),
                          !.tool_project_key = rag.key,
                          !.rag_calls = IF rag_query(b) # <<>> /\ rag.key # Unbound
                                        THEN @ + 1 ELSE @,
                          !.rag_raised = rag.raised,
                          !.appended = IF use_history(b)
                                       THEN <<ChatMessage("user", Strip(b.message))>>
                                       ELSE <<>>,
                          !.input_messages = input,
                          !.pending_messages = input,
                          !.tool_iterations = 0,
                          !.use_tools_this_turn = _user_might_need_tools(text),
                          !.forced_tool_name = _choose_tool_name(text)]} :
              /\ AGENT_HISTORIES' = H1
              /\ flow' = [flow EXCEPT ![f] = LoopTop(fl1, createOk)]

\* Any outcome of the retrieval step.
generator_start(f) == generator_start_with(f, RagOutcomes)

\* ------------------------------------------------------------------------
\* One round: the stream, the tool calls, the dispatch (main.py:453-639)
\* ------------------------------------------------------------------------
\* Variant of MergeFragment: the arguments text is assigned, not extended.
MergeFragment_replace(map, tool_call) ==
  LET index == tool_call.index
      entry == IF index \in DOMAIN map THEN map[index]
               ELSE [id |-> tool_call.id, type |-> "function",
                     function |-> [name |-> "", arguments |-> <<>>]]
      e1 == IF Truthy(tool_call.id) /\ ~Truthy(entry.id)
            THEN [entry EXCEPT !.id = tool_call.id] ELSE entry
      e2 == IF Truthy(tool_call.name)
            THEN [e1 EXCEPT !.function.name = tool_call.name] ELSE e1
      e3 == IF tool_call.arguments # <<>>
            THEN [e2 EXCEPT !.function.arguments = tool_call.arguments] ELSE e2
  IN  [i \in (DOMAIN map) \cup {index} |-> IF i = index THEN e3 ELSE map[i]]

\* main.py:464-479: merge one streamed fragment into tool_call_map.
MergeFragment(map, tool_call) ==
  LET index == tool_call.index
      entry == IF index \in DOMAIN map THEN map[index]
               ELSE [id |-> tool_call.id, type |-> "function",
                     function |-> [name |-> "", arguments |-> <<>>]]
      e1 == IF Truthy(tool_call.id) /\ ~Truthy(entry.id)
            THEN [entry EXCEPT !.id = tool_call.id] ELSE entry
      e2 == IF Truthy(tool_call.name)
            THEN [e1 EXCEPT !.function.name = tool_call.name] ELSE e1
      e3 == IF tool_call.arguments # <<>>
            THEN [e2 EXCEPT !.function.arguments = @ \o tool_call.arguments] ELSE e2
  IN  [i \in (DOMAIN map) \cup {index} |-> IF i = index THEN e3 ELSE map[i]]

RECURSIVE MergeFragments(_, _)
MergeFragments(map, delta_tool_calls) ==
  IF delta_tool_calls = <<>> THEN map
  ELSE MergeFragments(MergeFragment(map, Head(delta_tool_calls)), Tail(delta_tool_calls))

\* main.py:480: [tool_call_map[i] for i in sorted(tool_call_map.keys())]
RECURSIVE SortedKeys(_)
SortedKeys(S) == IF S = {} THEN <<>> ELSE <<Min(S)>> \o SortedKeys(S \ {Min(S)})

\* Variant of tool_calls_of: sorted(..., reverse=True).
tool_calls_of_descending(map) ==
  LET keys == SortedKeys(DOMAIN map) IN [k \in 1..Len(keys) |-> map[keys[Len(keys) + 1 - k]]]

tool_calls_of(map) ==
  LET keys == SortedKeys(DOMAIN map) IN [k \in 1..Len(keys) |-> map[keys[k]]]

IsAllowed(call) == call.function.name \in DOMAIN allowed_tools

\* main.py:526-528
allowed_tool_calls(tool_calls) == SelectSeq(tool_calls, IsAllowed)

\* Variant of stream_chunk: the token is yielded inside `if history is not None`.
stream_chunk_token_with_history_only(f, chunk) ==
  /\ flow[f].pc = "streaming"
  /\ flow[f].delivered < MaxChunks
  /\ LET fl  == flow[f]
         fl1 == IF chunk.content # <<>> /\ fl.use_history
                THEN [Emit(fl, 461, "token", chunk.content) EXCEPT
                        !.assistant_chunks = Append(@, chunk.content),
                        !.at_yield = TRUE]
                ELSE [fl EXCEPT !.at_yield = FALSE]
     IN  flow' = [flow EXCEPT ![f] =
                    [fl1 EXCEPT !.tool_call_map = MergeFragments(@, chunk.tool_calls),
                                !.fragments = @ \o chunk.tool_calls,
                                !.received =
                                   IF chunk.content # <<>>
                                   THEN Append(@, [round |-> Len(fl.requests),
                                                   content |-> chunk.content])
                                   ELSE @,
                                !.delivered = @ + 1]]
  /\ UNCHANGED <<AGENT_HISTORIES, history_dir, reply, wire>>

\* main.py:454-479: the body of `for chunk in stream` for one chunk.
stream_chunk(f, chunk) ==
  /\ flow[f].pc = "streaming"
  /\ flow[f].delivered < MaxChunks
  /\ LET fl  == flow[f]
         fl1 == IF chunk.content # <<>>
                THEN [Emit(fl, 461, "token", chunk.content) EXCEPT
                        !.assistant_chunks = IF fl.use_history
                                             THEN Append(@, chunk.content) ELSE @,
                        !.at_yield = TRUE]
                ELSE [fl EXCEPT !.at_yield = FALSE]
     IN  flow' = [flow EXCEPT ![f] =
                    [fl1 EXCEPT !.tool_call_map = MergeFragments(@, chunk.tool_calls),
                                !.fragments = @ \o chunk.tool_calls,
                                !.received =
                                   IF chunk.content # <<>>
                                   THEN Append(@, [round |-> Len(fl.requests),
                                                   content |-> chunk.content])
                                   ELSE @,
                                !.delivered = @ + 1]]
  /\ UNCHANGED <<AGENT_HISTORIES, history_dir, reply, wire>>

\* The provider call fails while the stream is read (main.py:454 raising).
stream_raises(f) ==
  /\ flow[f].pc = "streaming"
  /\ flow' = [flow EXCEPT ![f] = Raise(@, "APIError")]
  /\ UNCHANGED <<AGENT_HISTORIES, history_dir, reply, wire>>

ToolResult(runner, args) == [runner |-> runner, args |-> args]

\* The if/elif chain of main.py:569-594: the function run for a tool name,
\* its event and the operation label of its payload.
Unsupported == "Unsupported tool."

DispatchTable ==
  [ export_pdf     |-> [run |-> "run_export_pdf_tool",     event |-> "pdf_saved",       operation |-> <<>>],
    export_docx    |-> [run |-> "run_export_docx_tool",    event |-> "docx_saved",      operation |-> <<>>],
    generate_image |-> [run |-> "run_generate_image_tool", event |-> "image_generated", operation |-> <<>>],
    resize_image   |-> [run |-> "run_resize_image_tool",   event |-> "image_updated",   operation |-> <<"r","e","s","i","z","e">>],
    crop_image     |-> [run |-> "run_crop_image_tool",     event |-> "image_updated",   operation |-> <<"c","r","o","p">>],
    convert_image  |-> [run |-> "run_convert_image_tool",  event |-> "image_updated",   operation |-> <<"c","o","n","v","e","r","t">>] ]

\* str.replace(old, "") on a text.
RECURSIVE RemoveSub(_, _)
RemoveSub(s, old) ==
  IF Len(s) < Len(old) THEN s
  ELSE IF SubSeq(s, 1, Len(old)) = old THEN RemoveSub(SubSeq(s, Len(old) + 1, Len(s)), old)
  ELSE <<Head(s)>> \o RemoveSub(Tail(s), old)

\* main.py:490-492 and 566-568: add the default project key to the arguments.
InjectProjectKey(args, tool_project_key) ==
  IF Truthy(tool_project_key) /\ LacksProjectKey(args)
  THEN DictSet(args, "project_key", tool_project_key) ELSE args

\* main.py:595-596: the tool returned; its event is yielded.
ToolSucceeded(fl, tool_name, result) ==
  LET entry == DispatchTable[tool_name]
      event_payload == IF entry.operation # <<>>
                       THEN [operation |-> entry.operation, result |-> result]
                       ELSE result
  IN  [Emit(fl, 595, entry.event, JsonDumps(event_payload)) EXCEPT
         !.pc = "after_tool", !.call.tool_content = JsonDumps(result)]

\* Variant of ToolFailed: no except block, the exception reaches the
\* outermost handler.
ToolFailed_propagates(fl, tool_name, exc) == Raise(fl, exc)

\* Variant of ToolFailed: a generic error event is yielded next to the
\* tool's own event.
ToolFailed_two_events(fl, tool_name, exc) ==
  LET event_name == IF tool_name \in DOMAIN allowed_tools THEN allowed_tools[tool_name]
                    ELSE "error"
      error_payload == [error |-> exc]
  IN  [Emit(Emit(fl, 612, "error", <<exc>>), 612, event_name, JsonDumps(error_payload)) EXCEPT
         !.pc = "after_tool", !.call.tool_content = JsonDumps(error_payload)]

\* Variant of ToolFailed: the operation label is the tool name as it is.
ToolFailed_operation_is_tool_name(fl, tool_name, exc) ==
  LET event_name == IF tool_name \in DOMAIN allowed_tools THEN allowed_tools[tool_name]
                    ELSE "error"
      error_payload == IF event_name = "image_updated"
                       THEN [operation |-> NameChars[tool_name], error |-> exc]
                       ELSE [error |-> exc]
  IN  [Emit(fl, 612, event_name, JsonDumps(error_payload)) EXCEPT
         !.pc = "after_tool", !.call.tool_content = JsonDumps(error_payload)]

\* main.py:597-613: the except block of the dispatch.
ToolFailed(fl, tool_name, exc) ==
  LET event_name == IF tool_name \in DOMAIN allowed_tools THEN allowed_tools[tool_name]
                    ELSE "error"
      error_payload == IF event_name = "image_updated"
                       THEN [operation |-> RemoveSub(NameChars[tool_name], <<"_","i","m","a","g","e">>),
                             error |-> exc]
                       ELSE [error |-> exc]
  IN  [Emit(fl, 612, event_name, JsonDumps(error_payload)) EXCEPT
         !.pc = "after_tool", !.call.tool_content = JsonDumps(error_payload)]

\* main.py:561-613: the first allowed call goes through the try block; the
\* result is the flow suspended at the yield of the tool's event.
Dispatch(fl, tcall, outcome) ==
  LET tool_name == tcall.function.name
      tool_id   == IF Truthy(tcall.id) THEN tcall.id
                   ELSE IF tool_name # "" THEN tool_name ELSE "tool"
      raw_args  == tcall.function.arguments
      parsed    == IF raw_args # <<>> THEN JsonLoads(raw_args)
                   ELSE [ok |-> TRUE, value |-> EmptyDict]
      args      == InjectProjectKey(parsed.value, fl.tool_project_key)
      fl1       == [fl EXCEPT !.call = [tool_id |-> tool_id, tool_name |-> tool_name,
                                        raw_args |-> raw_args,
                                        tool_content |-> JsonDumps(None)]]
      ran       == [fl1 EXCEPT !.executed =
                      Append(@, [run |-> DispatchTable[tool_name].run, name |-> tool_name,
                                 args |-> args, round |-> Len(fl.requests)])]
  IN  IF ~parsed.ok THEN ToolFailed(fl1, tool_name, "JSONDecodeError")
      ELSE IF fl.tool_project_key = Unbound THEN ToolFailed(fl1, tool_name, "UnboundLocalError")
      ELSE IF tool_name \notin DOMAIN DispatchTable THEN ToolFailed(fl1, tool_name, Unsupported)
      ELSE IF outcome = "raise" THEN ToolFailed(ran, tool_name, "ToolError")
      ELSE ToolSucceeded(ran, tool_name, ToolResult(DispatchTable[tool_name].run, args))

\* main.py:529-534: no call of the batch is allowed; the flow is suspended
\* at the yield of the error event.
Reject(fl, first_call) ==
  LET tool_id   == IF Truthy(first_call.id) THEN first_call.id ELSE "unknown_tool"
      tool_name == first_call.function.name
      error_payload == [error |-> <<"Tool '", tool_name, "' is not allowed.">>]
  IN  [Emit(fl, 534, "error", error_payload.error) EXCEPT
         !.pc = "after_reject",
         !.call = [tool_id |-> tool_id, tool_name |-> tool_name,
                   raw_args |-> first_call.function.arguments,
                   tool_content |-> JsonDumps(error_payload)]]

\* The tools the textual recovery has a branch for (main.py:493-501).
FallbackTable ==
  [ generate_image |-> [run |-> "run_generate_image_tool", event |-> "image_generated", line |-> 495],
    export_docx    |-> [run |-> "run_export_docx_tool",    event |-> "docx_saved",      line |-> 498],
    export_pdf     |-> [run |-> "run_export_pdf_tool",     event |-> "pdf_saved",       line |-> 501] ]

\* main.py:486-515: the stream brought no tool call.
NoToolCalls(fl, outcome) ==
  LET forced    == fl.forced_tool_name
      extracted == IF include_tools(fl) /\ Truthy(forced)
                   THEN _extract_tool_args(fl.assistant_text, forced)
                   ELSE [found |-> FALSE, args |-> EmptyDict]
      args      == InjectProjectKey(extracted.args, fl.tool_project_key)
  IN  IF ~(extracted.found /\ DOMAIN extracted.args # {}) THEN Finish(fl)
      ELSE IF fl.tool_project_key = Unbound
           THEN [Emit(fl, 513, "error", <<"UnboundLocalError">>) EXCEPT !.pc = "after_fallback"]
      ELSE IF forced \notin DOMAIN FallbackTable THEN Finish(fl)
      ELSE LET ran == [fl EXCEPT !.executed =
                         Append(@, [run |-> FallbackTable[forced].run, name |-> forced,
                                    args |-> args, round |-> Len(fl.requests)])]
           IN  IF outcome = "raise"
               THEN [Emit(ran, 513, "error", <<"ToolError">>) EXCEPT !.pc = "after_fallback"]
               ELSE [Emit(ran, FallbackTable[forced].line, FallbackTable[forced].event,
                          JsonDumps(ToolResult(FallbackTable[forced].run, args)))
                       EXCEPT !.pc = "after_fallback"]

\* Variant of stream_end: no allow-list; the first accumulated call is run
\* through a table that knows every tool offered to the provider.
stream_end_no_allow_list(f) ==
  /\ flow[f].pc = "streaming"
  /\ UNCHANGED <<history_dir, reply, wire>>
  /\ \E outcome \in ToolOutcomes :
       LET fl == flow[f]
           tool_calls == tool_calls_of(fl.tool_call_map)
           assistant_text == Strip(Join(fl.assistant_chunks))
           fl1 == [fl EXCEPT !.assistant_text = assistant_text, !.at_yield = FALSE,
                             !.appended = IF fl.use_history /\ assistant_text # <<>>
                                          THEN Append(@, ChatMessage("assistant", assistant_text))
                                          ELSE @]
           fl2 == [fl1 EXCEPT !.tool_iterations = @ + 1]
       IN  /\ AGENT_HISTORIES' =
                IF fl.use_history /\ assistant_text # <<>>
                THEN HistoryAppend(AGENT_HISTORIES, fl.agent_id,
                                   ChatMessage("assistant", assistant_text))
                ELSE AGENT_HISTORIES
           /\ flow' = [flow EXCEPT ![f] =
                IF tool_calls = <<>> THEN NoToolCalls(fl1, outcome)
                ELSE LET tcall == tool_calls[1]
                         ran == [fl2 EXCEPT
                                   !.executed =
                                      Append(@, [run |-> "run_tool", name |-> tcall.function.name,
                                                 args |-> EmptyDict, round |-> Len(fl.requests)]),
                                   !.call = [tool_id |-> "tool", tool_name |-> tcall.function.name,
                                             raw_args |-> tcall.function.arguments,
                                             tool_content |-> JsonDumps(None)]]
                     IN  [Emit(ran, 595, "tool_saved", JsonDumps(None)) EXCEPT !.pc = "after_tool"]]

\* Variant of stream_end: the assistant turn is appended to the copy of the
\* history taken at the start of the flow (base_messages), and the copy is
\* stored back under the agent id.
stream_end_writes_snapshot(f) ==
  /\ flow[f].pc = "streaming"
  /\ UNCHANGED <<history_dir, reply, wire>>
  /\ \E outcome \in ToolOutcomes :
       LET fl == flow[f]
           tool_calls == tool_calls_of(fl.tool_call_map)
           assistant_text == Strip(Join(fl.assistant_chunks))
           fl1 == [fl EXCEPT !.assistant_text = assistant_text, !.at_yield = FALSE,
                             !.appended = IF fl.use_history /\ assistant_text # <<>>
                                          THEN Append(@, ChatMessage("assistant", assistant_text))
                                          ELSE @]
           fl2 == [fl1 EXCEPT !.tool_iterations = @ + 1]
       IN  /\ AGENT_HISTORIES' =
                IF fl.use_history /\ assistant_text # <<>>
                THEN [AGENT_HISTORIES EXCEPT ![fl.agent_id] =
                        Append(SelectSeq(fl.input_messages, LAMBDA m : m.role # "system"),
                               ChatMessage("assistant", assistant_text))]
                ELSE AGENT_HISTORIES
           /\ flow' = [flow EXCEPT ![f] =
                IF tool_calls = <<>> THEN NoToolCalls(fl1, outcome)
                ELSE IF allowed_tool_calls(tool_calls) = <<>> THEN Reject(fl2, tool_calls[1])
                ELSE Dispatch(fl2, allowed_tool_calls(tool_calls)[1], outcome)]

\* Variant of stream_end: the assistant turn is appended without the
\* `and assistant_text` test.
stream_end_appends_empty_turn(f) ==
  /\ flow[f].pc = "streaming"
  /\ UNCHANGED <<history_dir, reply, wire>>
  /\ \E outcome \in ToolOutcomes :
       LET fl == flow[f]
           tool_calls == tool_calls_of(fl.tool_call_map)
           assistant_text == Strip(Join(fl.assistant_chunks))
           fl1 == [fl EXCEPT !.assistant_text = assistant_text, !.at_yield = FALSE,
                             !.appended = IF fl.use_history
                                          THEN Append(@, ChatMessage("assistant", assistant_text))
                                          ELSE @]
           fl2 == [fl1 EXCEPT !.tool_iterations = @ + 1]
       IN  /\ AGENT_HISTORIES' =
                IF fl.use_history
                THEN HistoryAppend(AGENT_HISTORIES, fl.agent_id,
                                   ChatMessage("assistant", assistant_text))
                ELSE AGENT_HISTORIES
           /\ flow' = [flow EXCEPT ![f] =
                IF tool_calls = <<>> THEN NoToolCalls(fl1, outcome)
                ELSE IF allowed_tool_calls(tool_calls) = <<>> THEN Reject(fl2, tool_calls[1])
                ELSE Dispatch(fl2, allowed_tool_calls(tool_calls)[1], outcome)]

\* The stream ends (main.py:480-534, 561-613): the assistant turn is
\* recorded, then the round ends without a tool, with a rejected batch or
\* with one dispatched tool.
stream_end(f) ==
  /\ flow[f].pc = "streaming"
  /\ UNCHANGED <<history_dir, reply, wire>>
  /\ \E outcome \in ToolOutcomes :
       LET fl == flow[f]
           tool_calls == tool_calls_of(fl.tool_call_map)
           assistant_text == Strip(Join(fl.assistant_chunks))
           fl1 == [fl EXCEPT !.assistant_text = assistant_text, !.at_yield = FALSE,
                             !.appended = IF fl.use_history /\ assistant_text # <<>>
                                          THEN Append(@, ChatMessage("assistant", assistant_text))
                                          ELSE @]
           fl2 == [fl1 EXCEPT !.tool_iterations = @ + 1]
       IN  /\ AGENT_HISTORIES' =
                IF fl.use_history /\ assistant_text # <<>>
                THEN HistoryAppend(AGENT_HISTORIES, fl.agent_id,
                                   ChatMessage("assistant", assistant_text))
                ELSE AGENT_HISTORIES
           /\ flow' = [flow EXCEPT ![f] =
                IF tool_calls = <<>> THEN NoToolCalls(fl1, outcome)
                ELSE IF allowed_tool_calls(tool_calls) = <<>> THEN Reject(fl2, tool_calls[1])
                ELSE Dispatch(fl2, allowed_tool_calls(tool_calls)[1], outcome)]

\* Variant of ToolExchange: only the tool message is appended.
ToolExchange_without_assistant(fl, name) ==
  << [role |-> "tool", tool_call_id |-> fl.call.tool_id, name |-> name,
      content |-> fl.call.tool_content] >>

\* The assistant/tool message pair appended to pending_messages
\* (main.py:535-558 and 615-638).
ToolExchange(fl, name) ==
  << [role |-> "assistant", content |-> fl.assistant_text,
      tool_calls |-> << [id |-> fl.call.tool_id, type |-> "function",
                         function |-> [name |-> name, arguments |-> fl.call.raw_args]] >>],
     [role |-> "tool", tool_call_id |-> fl.call.tool_id, name |-> name,
      content |-> fl.call.tool_content] >>

\* Variant of after_reject: `break` in place of `continue`.
after_reject_break(f) ==
  /\ flow[f].pc = "after_reject"
  /\ flow' = [flow EXCEPT ![f] =
                Finish([@ EXCEPT !.pending_messages =
                                   @ \o ToolExchange(flow[f], flow[f].call.tool_name)])]
  /\ UNCHANGED <<AGENT_HISTORIES, history_dir, reply, wire>>

\* Resumed after the error event of a rejected batch (main.py:535-559).
after_reject(f) ==
  /\ flow[f].pc = "after_reject"
  /\ \E createOk \in BOOLEAN :
       flow' = [flow EXCEPT ![f] =
                  LoopTop([@ EXCEPT !.pending_messages = @ \o ToolExchange(flow[f], flow[f].call.tool_name)],
                          createOk)]
  /\ UNCHANGED <<AGENT_HISTORIES, history_dir, reply, wire>>

\* Variant of after_tool: the loop is left after the exchange is appended.
after_tool_breaks(f) ==
  /\ flow[f].pc = "after_tool"
  /\ flow' = [flow EXCEPT ![f] =
                Finish([@ EXCEPT !.pending_messages = @ \o
                          ToolExchange(flow[f], IF flow[f].call.tool_name # ""
                                                THEN flow[f].call.tool_name ELSE "tool")])]
  /\ UNCHANGED <<AGENT_HISTORIES, history_dir, reply, wire>>

\* Resumed after the event of the dispatched tool (main.py:615-639).
after_tool(f) ==
  /\ flow[f].pc = "after_tool"
  /\ \E createOk \in BOOLEAN :
       flow' = [flow EXCEPT ![f] =
                  LoopTop([@ EXCEPT !.pending_messages = @ \o
                             ToolExchange(flow[f], IF flow[f].call.tool_name # ""
                                                   THEN flow[f].call.tool_name ELSE "tool")],
                          createOk)]
  /\ UNCHANGED <<AGENT_HISTORIES, history_dir, reply, wire>>

\* Resumed after the event of the textual recovery: break (main.py:514).
after_fallback(f) ==
  /\ flow[f].pc = "after_fallback"
  /\ flow' = [flow EXCEPT ![f] = Finish(@)]
  /\ UNCHANGED <<AGENT_HISTORIES, history_dir, reply, wire>>

\* Resumed after `yield sources` (main.py:643).
after_sources(f) ==
  /\ flow[f].pc = "after_sources"
  /\ flow' = [flow EXCEPT ![f] = [Emit(@, 643, "done", <<>>) EXCEPT !.pc = "done"]]
  /\ UNCHANGED <<AGENT_HISTORIES, history_dir, reply, wire>>

\* Variant of after_error: the handler ends without yielding `done`.
after_error_no_done(f) ==
  /\ flow[f].pc = "after_error"
  /\ flow' = [flow EXCEPT ![f].pc = "done"]
  /\ UNCHANGED <<AGENT_HISTORIES, history_dir, reply, wire>>

\* Variant of after_error: the handler falls through to the common tail
\* (sources, then done).
after_error_common_tail(f) ==
  /\ flow[f].pc = "after_error"
  /\ flow' = [flow EXCEPT ![f] = Finish(@)]
  /\ UNCHANGED <<AGENT_HISTORIES, history_dir, reply, wire>>

\* Variant of after_error: the handler re-enters the loop and asks the
\* provider again.
after_error_retries(f) ==
  /\ flow[f].pc = "after_error"
  /\ flow' = [flow EXCEPT ![f] = LoopTop(@, TRUE)]
  /\ UNCHANGED <<AGENT_HISTORIES, history_dir, reply, wire>>

\* Variant of after_error: the handler takes the flow's turns out of the
\* history again.
after_error_rolls_back(f) ==
  /\ flow[f].pc = "after_error"
  /\ flow' = [flow EXCEPT ![f] = [Emit(@, 646, "done", <<>>) EXCEPT !.pc = "done"]]
  /\ AGENT_HISTORIES' =
       IF flow[f].appended # <<>>
       THEN [AGENT_HISTORIES EXCEPT ![flow[f].agent_id] =
               SubSeq(@, 1, Len(@) - Len(flow[f].appended))]
       ELSE AGENT_HISTORIES
  /\ UNCHANGED <<history_dir, reply, wire>>

\* Resumed after the error event of the outermost handler (main.py:646).
after_error(f) ==
  /\ flow[f].pc = "after_error"
  /\ flow' = [flow EXCEPT ![f] = [Emit(@, 646, "done", <<>>) EXCEPT !.pc = "done"]]
  /\ UNCHANGED <<AGENT_HISTORIES, history_dir, reply, wire>>

\* The generator is suspended at a yield (or not yet started).
Suspended(fl) ==
  \/ fl.pc \in {"missing_key", "mk_error", "start", "after_reject", "after_tool",
                "after_fallback", "after_sources", "after_error"}
  \/ fl.pc = "streaming" /\ fl.at_yield

\* Variant of disconnect: the generator is not closed and goes on running
\* when it is resumed.
disconnect_ignored(f) ==
  /\ Suspended(flow[f])
  /\ ~flow[f].disconnected
  /\ flow' = [flow EXCEPT ![f].disconnected = TRUE]
  /\ UNCHANGED <<AGENT_HISTORIES, history_dir, reply, wire>>

\* The client disconnects: the response closes the generator where it is
\* suspended (GeneratorExit is not an Exception, so main.py:644 lets it pass).
disconnect(f) ==
  /\ Suspended(flow[f])
  /\ flow' = [flow EXCEPT ![f].pc = "closed", ![f].disconnected = TRUE]
  /\ UNCHANGED <<AGENT_HISTORIES, history_dir, reply, wire>>

\* ------------------------------------------------------------------------
\* One flow, any provider behaviour within the bounds
\* ------------------------------------------------------------------------
FlowStep(f) ==
  \/ chat_stream(f)
  \/ missing_key_error(f)
  \/ missing_key_done(f)
  \/ generator_start(f)
  \/ \E chunk \in FlowChunks : stream_chunk(f, chunk)
  \/ stream_raises(f)
  \/ stream_end(f)
  \/ after_reject(f)
  \/ after_tool(f)
  \/ after_fallback(f)
  \/ after_sources(f)
  \/ after_error(f)
  \/ disconnect(f)

Next == FlowStep(1)

Spec == Init /\ [][Next]_vars

\* The requests and retrieval outcomes of LiveSpec: a tracked request with a
\* forced tool and a project key, an untracked one that fires the trigger and
\* a blank one; a retrieval that finds chunks and one that fails before
\* tool_project_key is assigned.
LiveBodies == { b \in Bodies : b.message \notin { <<"h","i">>, <<"p","l","e","a","s","e"," ","r","e","s","i","z","e"," ","t","h","i","s"," ","i","m","a","g","e">> } }

LiveRag == { r \in RagOutcomes : r.key = Unbound \/ r.chunks # <<>> }

\* The same flow with a client that stays connected and consumes every
\* event: the generator is always resumed, every provider stream ends
\* (stream_end or stream_raises) and every tool function returns or raises.
LiveStep(f) ==
  \/ chat_stream_with(f, LiveBodies, BOOLEAN)
  \/ missing_key_error(f)
  \/ missing_key_done(f)
  \/ generator_start_with(f, LiveRag)
  \/ \E chunk \in FlowChunks : stream_chunk(f, chunk)
  \/ stream_raises(f)
  \/ stream_end(f)
  \/ after_reject(f)
  \/ after_tool(f)
  \/ after_fallback(f)
  \/ after_sources(f)
  \/ after_error(f)

LiveNext == LiveStep(1)

LiveSpec == Init /\ [][LiveNext]_vars /\ WF_vars(LiveNext)

\* ------------------------------------------------------------------------
\* Properties
\* ------------------------------------------------------------------------
Last(s) == s[Len(s)]

CountEvents(em, event) == Cardinality({ i \in 1..Len(em) : em[i].event = event })

ToolResultEvents == {"pdf_saved", "docx_saved", "image_generated", "image_updated"}

\* The tool function calls made in the flow's current round.
ExecutedInRound(fl) == { i \in 1..Len(fl.executed) : fl.executed[i].round = Len(fl.requests) }

\* The outermost handler has caught an exception in the flow.
HandlerRan(fl) == \E i \in 1..Len(fl.emitted) : fl.emitted[i].line = 645

\* C1: in every flow the `done` event occurs at most once, nothing follows
\* it, and a flow has ended (missing credentials, normal end, round limit,
\* exception) exactly when `done` is its last event.
C1_DoneOnceAndLast ==
  \A f \in Flows :
    LET em == flow[f].emitted
    IN  /\ \A i \in 1..Len(em) : em[i].event = "done" => i = Len(em)
        /\ flow[f].pc = "done" <=> (em # <<>> /\ Last(em).event = "done")

\* A flow that ran into the round limit has ended with `done`.
C1_Witness ==
  \E f \in Flows :
    /\ flow[f].pc = "done"
    /\ flow[f].tool_iterations = max_tool_iterations
    /\ Last(flow[f].emitted).event = "done"

\* C2: every call of a tool function is for a name of the allow-list.
C2_AllowList ==
  {"export_pdf", "export_docx", "generate_image", "resize_image", "crop_image", "convert_image"}

C2_OnlyAllowListedToolsRun ==
  \A f \in Flows :
    \A i \in 1..Len(flow[f].executed) : flow[f].executed[i].name \in C2_AllowList

\* A batch mixing a call outside the allow-list with an allowed call has
\* been dispatched and a tool function has run for it.
C2_Witness ==
  \E f \in Flows :
    /\ flow[f].pc = "after_tool"
    /\ ExecutedInRound(flow[f]) # {}
    /\ \E i \in DOMAIN flow[f].tool_call_map :
         flow[f].tool_call_map[i].function.name \notin C2_AllowList

\* C3 as stated: a round whose stream holds a call outside the allow-list
\* ends with an error event and without a tool run.
C3_AnyDisallowedCallIsRejected ==
  \A f \in Flows :
    LET fl == flow[f]
    IN  (/\ fl.pc \in {"after_tool", "after_reject"}
         /\ \E i \in DOMAIN fl.tool_call_map :
              fl.tool_call_map[i].function.name \notin C2_AllowList)
        => /\ fl.pc = "after_reject"
           /\ Last(fl.emitted).event = "error"
           /\ ExecutedInRound(fl) = {}

\* The batch of the round holds calls and none is of the allow-list.
NoneAllowed(fl) ==
  /\ DOMAIN fl.tool_call_map # {}
  /\ \A i \in DOMAIN fl.tool_call_map :
       fl.tool_call_map[i].function.name \notin C2_AllowList

C3_RoundOfRejectedBatch ==
  \A f \in Flows :
    LET fl == flow[f]
        first_call == tool_calls_of(fl.tool_call_map)[1]
    IN  (fl.pc \in {"after_tool", "after_reject"} /\ NoneAllowed(fl))
        => /\ fl.pc = "after_reject"
           /\ Last(fl.emitted).event = "error"
           /\ Last(fl.emitted).data = <<"Tool '", first_call.function.name, "' is not allowed.">>
           /\ Last(fl.emitted).round = Len(fl.requests)
           /\ ExecutedInRound(fl) = {}

C3_RejectedFlowGoesOn ==
  \A f \in Flows :
    (flow[f].pc = "after_reject" /\ flow'[f].pc \notin {"after_reject", "closed"})
    => IF flow[f].tool_iterations < max_tool_iterations
       THEN /\ Len(flow'[f].requests) = Len(flow[f].requests) + 1
            /\ LET sent == Last(flow'[f].requests).messages
               IN  /\ Len(sent) = Len(flow[f].pending_messages) + 2
                   /\ Last(sent).role = "tool"
                   /\ Last(sent).content = flow[f].call.tool_content
       ELSE /\ flow'[f].requests = flow[f].requests
            /\ flow'[f].pc \in {"after_sources", "done"}

\* C3 (amended): when the stream of a round ends with tool calls none of
\* which is of the allow-list, an error event naming the first call is
\* emitted, no tool runs in that round, and the flow issues a further
\* provider request carrying the rejection, unless the round limit is
\* reached.
C3_RejectedBatchGoesOn == []C3_RoundOfRejectedBatch /\ [][C3_RejectedFlowGoesOn]_vars

\* After a rejected batch the flow is in its second round.
C3_Witness ==
  \E f \in Flows :
    /\ flow[f].pc = "streaming"
    /\ Len(flow[f].requests) = 2
    /\ Last(flow[f].emitted).line = 534

\* The tool of the round failed: its response content is an error payload.
CallFailed(fl) == "error" \in DOMAIN fl.call.tool_content.json

SomeAllowed(fl) ==
  \E i \in DOMAIN fl.tool_call_map : fl.tool_call_map[i].function.name \in C2_AllowList

C4_FailedToolEvent ==
  \A f \in Flows :
    LET fl == flow[f]
    IN  (fl.pc = "after_tool" /\ CallFailed(fl))
        => /\ Last(fl.emitted).event = allowed_tools[fl.call.tool_name]
           /\ Last(fl.emitted).event \in ToolResultEvents
           /\ Last(fl.emitted).data = fl.call.tool_content
           /\ Cardinality({ i \in 1..Len(fl.emitted) :
                              /\ fl.emitted[i].round = Len(fl.requests)
                              /\ fl.emitted[i].event # "token" }) = 1

C4_DispatchIsContained ==
  \A f \in Flows :
    /\ (flow'[f].tool_iterations = flow[f].tool_iterations + 1 /\ SomeAllowed(flow[f]))
       => /\ flow'[f].pc = "after_tool"
          /\ Len(flow'[f].emitted) = Len(flow[f].emitted) + 1
          /\ Last(flow'[f].emitted).event \in ToolResultEvents
    /\ (flow[f].pc = "after_tool" /\ flow'[f].pc \notin {"after_tool", "closed"})
       => IF flow[f].tool_iterations < max_tool_iterations
          THEN /\ Len(flow'[f].requests) = Len(flow[f].requests) + 1
               /\ Last(Last(flow'[f].requests).messages).content = flow[f].call.tool_content
               /\ flow'[f].pc \in {"streaming", "after_error"}
          ELSE /\ flow'[f].requests = flow[f].requests
               /\ flow'[f].pc \in {"after_sources", "done"}

\* C4: a dispatched tool that fails (its function raises, its arguments
\* are malformed) ends the round with exactly one event, named as the
\* tool's own event and carrying the error payload; the step never enters
\* the outermost handler, and the flow then issues the next provider
\* request or, at the round limit, goes to sources/done.
C4_ToolFailureContained == []C4_FailedToolEvent /\ [][C4_DispatchIsContained]_vars

\* A tool function ran and raised, and the flow went on to its second round.
C4_Witness ==
  \E f \in Flows :
    /\ flow[f].pc = "streaming"
    /\ Len(flow[f].requests) = 2
    /\ Len(flow[f].executed) = 1
    /\ Last(flow[f].emitted).line = 612

\* C5: the error event of the outermost handler occurs at most once in a
\* flow, it is the last event while the flow is suspended on it, and the
\* only event after it is `done`.
C5_HandlerErrorThenDone ==
  \A f \in Flows :
    LET fl == flow[f]
        em == fl.emitted
    IN  /\ Cardinality({ i \in 1..Len(em) : em[i].line = 645 }) <= 1
        /\ fl.pc = "after_error" => (em # <<>> /\ Last(em).line = 645)
        /\ \A i \in 1..Len(em) :
             em[i].line = 645 =>
               /\ em[i].event = "error"
               /\ IF fl.pc = "done"
                  THEN i + 1 = Len(em) /\ em[i + 1].event = "done"
                  ELSE i = Len(em)

\* The provider failed after a token of a flow that had sources to report:
\* the flow ended with error, done.
C5_Witness ==
  \E f \in Flows :
    LET em == flow[f].emitted
    IN  /\ flow[f].pc = "done"
        /\ flow[f].sources_payload # <<>>
        /\ Len(em) >= 3
        /\ em[1].event = "token"
        /\ em[Len(em) - 1].line = 645

C6_MissingKeyFlow ==
  \A f \in Flows :
    LET fl == flow[f]
        em == fl.emitted
    IN  (fl.pc # "idle" /\ ~fl.api_key)
        => /\ fl.requests = <<>>
           /\ fl.executed = <<>>
           /\ fl.rag_calls = 0
           /\ Len(em) <= 2
           /\ Len(em) >= 1 => em[1].event = "error"
           /\ Len(em) = 2 => em[2].event = "done"
           /\ fl.pc = "done" => Len(em) = 2

C6_MissingKeyLeavesHistories ==
  \A f \in Flows :
    (flow'[f] # flow[f] /\ ~flow'[f].api_key) => AGENT_HISTORIES' = AGENT_HISTORIES

\* C6: a flow without provider credentials emits error, done and nothing
\* else; it issues no provider request, runs no retrieval and no tool, and
\* none of its steps changes an agent history.
C6_MissingKey == []C6_MissingKeyFlow /\ [][C6_MissingKeyLeavesHistories]_vars

\* A flow without credentials has ended.
C6_Witness ==
  \E f \in Flows :
    /\ flow[f].pc = "done"
    /\ ~flow[f].api_key
    /\ Len(flow[f].emitted) = 2

\* C7: with a client that stays connected, streams that end and tools that
\* return or raise, every started flow reaches `done`; the round loop is
\* bounded: never more than max_tool_iterations provider requests.
C7_EveryFlowEnds ==
  /\ \A f \in Flows : (flow[f].pc # "idle") ~> (flow[f].pc = "done")
  /\ [](\A f \in Flows : /\ Len(flow[f].requests) <= max_tool_iterations
                         /\ flow[f].tool_iterations <= max_tool_iterations)

\* A flow used every round of the loop and ended.
C7_Witness ==
  \E f \in Flows :
    /\ flow[f].pc = "done"
    /\ Len(flow[f].requests) = max_tool_iterations

\* The provider returned no structured tool call in the flow.
NoStructuredCall(fl) == fl.tool_iterations = 0 /\ DOMAIN fl.tool_call_map = {}

\* token events for the streamed texts, then sources if chunks were
\* retrieved, then done.
PlainEvents(fl) ==
  [k \in 1..Len(fl.received) |-> [event |-> "token", data |-> fl.received[k].content]]
    \o (IF fl.retrieved # <<>>
        THEN << [event |-> "sources", data |-> JsonDumps(fl.sources_payload)] >>
        ELSE <<>>)
    \o << [event |-> "done", data |-> <<>>] >>

\* The emitted events are the given ones: the same kinds in the same order,
\* with the same payloads.
SameEvents(em, expected) ==
  /\ [k \in 1..Len(em) |-> em[k].event] = [k \in 1..Len(expected) |-> expected[k].event]
  /\ \A k \in 1..Len(em) : em[k].data = expected[k].data

RecoveryApplies(fl) ==
  /\ include_tools(fl)
  /\ Truthy(fl.forced_tool_name)
  /\ _extract_tool_args(fl.assistant_text, fl.forced_tool_name).found
  /\ DOMAIN _extract_tool_args(fl.assistant_text, fl.forced_tool_name).args # {}

C9_EventOrder ==
  \A f \in Flows :
    LET em == flow[f].emitted
        tokens == SelectSeq(em, LAMBDA e : e.event = "token")
    IN  /\ \A i, j \in 1..Len(em) : i < j => em[i].round <= em[j].round
        /\ \A i, j \in 1..Len(em) :
             (i < j /\ em[i].round = em[j].round /\ em[j].event = "token")
               => em[i].event = "token"
        /\ \A i, j \in 1..Len(em) :
             (/\ em[i].round = em[j].round
              /\ em[i].event \in ToolResultEvents \cup {"error"}
              /\ em[j].event \in ToolResultEvents \cup {"error"}) => i = j
        /\ [k \in 1..Len(tokens) |-> [round |-> tokens[k].round, content |-> tokens[k].data]]
             = flow[f].received
        /\ \A i, j \in 1..Len(em) : (em[i].event = "sources" /\ i < j) => em[j].event = "done"
        /\ \A i \in 1..Len(em) : em[i].event = "done" => i = Len(em)

\* A token and a tool event in the first round, a token in the second,
\* then sources and done.
C9_Witness ==
  \E f \in Flows :
    LET em == flow[f].emitted
    IN  /\ flow[f].pc = "done"
        /\ Len(em) = 5
        /\ em[1].event = "token" /\ em[1].round = 1
        /\ em[2].event \in ToolResultEvents /\ em[2].round = 1
        /\ em[3].event = "token" /\ em[3].round = 2
        /\ em[4].event = "sources"

\* C10 as stated: a flow whose retrieval returned chunks emits exactly one
\* sources event, a flow whose retrieval returned nothing emits none.
C10_SourcesAsStated ==
  \A f \in Flows :
    (flow[f].pc = "done" /\ flow[f].api_key)
    => CountEvents(flow[f].emitted, "sources") = IF flow[f].retrieved # <<>> THEN 1 ELSE 0

\* C10 (amended): a flow emits exactly one sources event, immediately
\* before done, if retrieval returned chunks and the flow ends without an
\* exception reaching the outermost handler; it emits none if retrieval
\* returned nothing or failed, or if the flow ends through that handler.
C10_Sources ==
  \A f \in Flows :
    LET fl == flow[f]
        em == fl.emitted
    IN  /\ CountEvents(em, "sources") <= 1
        /\ fl.retrieved = <<>> => CountEvents(em, "sources") = 0
        /\ HandlerRan(fl) => CountEvents(em, "sources") = 0
        /\ \A i \in 1..Len(em) :
             em[i].event = "sources" =>
               /\ em[i].data = JsonDumps(GroupSources(fl.retrieved, <<>>))
               /\ i = Len(em) \/ (i + 1 = Len(em) /\ em[i + 1].event = "done")
        /\ (fl.pc = "done" /\ fl.api_key /\ fl.retrieved # <<>> /\ ~HandlerRan(fl))
             => CountEvents(em, "sources") = 1

\* A flow with retrieved chunks went through a tool round and ended with
\* sources, done.
C10_Witness ==
  \E f \in Flows :
    /\ flow[f].pc = "done"
    /\ flow[f].retrieved # <<>>
    /\ flow[f].tool_iterations >= 1
    /\ CountEvents(flow[f].emitted, "sources") = 1


\* ------------------------------------------------------------------------
\* Tool-call accumulation under a provider that splits calls into fragments
\* ------------------------------------------------------------------------
\* One tracked request without a forced tool.
AccumBodies == { b \in Bodies : b.message = <<"h","i">> }

\* Fragments of two slots: the arguments of slot 0 arrive in two pieces, and
\* slot 1 is named twice, the second time with another id and another name.
AccumChunks ==
  { Chunk(<<>>, << Fragment(0, "call_0", "export_pdf", <<"{">>) >>),
    Chunk(<<>>, << Fragment(0, None, None, <<"}">>) >>),
    Chunk(<<>>, << Fragment(1, "call_1", "load_skill", <<>>) >>),
    Chunk(<<>>, << Fragment(1, "call_x", "export_docx", <<"{","}">>) >>) }

AccumStep(f) ==
  \/ chat_stream_with(f, AccumBodies, {TRUE})
  \/ generator_start(f)
  \/ \E chunk \in AccumChunks : stream_chunk(f, chunk)
  \/ stream_raises(f)
  \/ stream_end(f)
  \/ after_reject(f)
  \/ after_tool(f)
  \/ after_sources(f)
  \/ after_error(f)

AccumNext == AccumStep(1)

AccumSpec == Init /\ [][AccumNext]_vars

\* The argument fragments of one slot, concatenated in arrival order.
RECURSIVE ArgumentsOfSlot(_, _)
ArgumentsOfSlot(fragments, slot) ==
  IF fragments = <<>> THEN <<>>
  ELSE (IF Head(fragments).index = slot THEN Head(fragments).arguments ELSE <<>>)
         \o ArgumentsOfSlot(Tail(fragments), slot)

\* C12: in every round the accumulated calls are those of the slots that
\* received a fragment, and the arguments text of each is the concatenation,
\* in arrival order, of the argument fragments of its slot.
C12_ArgumentsConcatenated ==
  \A f \in Flows :
    LET fl == flow[f] IN
      /\ DOMAIN fl.tool_call_map = { fl.fragments[k].index : k \in 1..Len(fl.fragments) }
      /\ \A slot \in DOMAIN fl.tool_call_map :
           fl.tool_call_map[slot].function.arguments = ArgumentsOfSlot(fl.fragments, slot)

\* A stream has ended in which a slot received two argument fragments with
\* a fragment of another slot between them, and its call was dispatched
\* with arguments that parse.
C12_Witness ==
  \E f \in Flows :
    LET fl == flow[f] IN
      /\ fl.pc = "after_tool"
      /\ fl.call.raw_args = <<"{","}">>
      /\ \E i, j, k \in 1..Len(fl.fragments) :
           /\ i < j /\ j < k
           /\ fl.fragments[i].index = fl.fragments[k].index
           /\ fl.fragments[j].index # fl.fragments[i].index
           /\ fl.fragments[i].arguments = <<"{">>
           /\ fl.fragments[k].arguments = <<"}">>

\* One step of accumulation leaves the id and the name of a slot that has
\* them as they are.
C13_SetOnce ==
  \A f \in Flows :
    (flow[f].pc = "streaming" /\ flow'[f].pc = "streaming") =>
      \A slot \in DOMAIN flow[f].tool_call_map :
         /\ Truthy(flow[f].tool_call_map[slot].id) =>
              flow'[f].tool_call_map[slot].id = flow[f].tool_call_map[slot].id
         /\ flow[f].tool_call_map[slot].function.name # "" =>
              flow'[f].tool_call_map[slot].function.name
                = flow[f].tool_call_map[slot].function.name

\* C13: during accumulation, the id and the name of a pending tool call,
\* once set from a fragment, are not changed by a later fragment of the slot.
C13_IdAndNameSetOnce == [][C13_SetOnce]_vars


\* ------------------------------------------------------------------------
\* The heuristic tool trigger over a range of utterances
\* ------------------------------------------------------------------------
Words ==
  { <<"r","e","s","i","z","e">>, <<"C","r","o","p">>, <<"c","o","n","v","e","r","t">>, <<"d","o","c","x">>, <<"p","a","s","s","w","o","r","d">>, <<"P","D","F">>,
    <<"i","m","a","g","e">>, <<"d","r","a","w">>, <<"p","i","c","t","u","r","e">>, <<"h","e","l","l","o">>, <<"E","x","p","o","r","t">> }

\* The empty and the blank utterance, single words, pairs of words in both
\* orders, and utterances with text around a phrase.
Utterances ==
  { <<>>, <<" "," ">>, <<"d","r","a","w"," ">>, <<" ","M","a","k","e"," ","a"," ","P","D","F","\n">>, <<"r","e","s","i","z","e"," ","t","h","e"," ","i","m","a","g","e">>,
    <<"e","x","p","o","r","t"," ","t","h","i","s"," ","a","s"," ","a"," ","w","o","r","d"," ","d","o","c">>, <<"d","r","a","w"," ","m","e"," ","a"," ","d","r","a","g","o","n">> }
    \cup Words
    \cup { w1 \o <<" ">> \o w2 : w1 \in Words, w2 \in Words }

\* Requests carrying the utterance as body.message, and one carrying it as
\* the last user message of body.messages.
TriggerBodies ==
  { [agent |-> NoneText, message |-> u, messages |-> <<>>, project_key |-> None] :
      u \in Utterances }
    \cup { [agent |-> NoneText, message |-> NoneText,
            messages |-> << ChatMessage("user", <<" ","p","l","e","a","s","e"," ","c","r","o","p"," ","i","t"," ">>) >>,
            project_key |-> None] }

TriggerNext ==
  \/ chat_stream_with(1, TriggerBodies, {TRUE})
  \/ generator_start(1)

TriggerSpec == Init /\ [][TriggerNext]_vars

\* The latest user utterance of a request.
Utterance(b) ==
  IF b.message # NoneText /\ b.message # <<>> THEN b.message
  ELSE IF last_user(b.messages) # NoneText THEN last_user(b.messages) ELSE <<>>

\* The generator has evaluated the trigger for the flow's request.
Triggered(fl) == fl.pc \notin {"idle", "start", "missing_key", "mk_error"}

\* The keyword checks in their priority order.
Priority ==
  << [keyword |-> <<"r","e","s","i","z","e">>,  tool |-> "resize_image"],
     [keyword |-> <<"c","r","o","p">>,    tool |-> "crop_image"],
     [keyword |-> <<"c","o","n","v","e","r","t">>, tool |-> "convert_image"],
     [keyword |-> <<"d","o","c","x">>,    tool |-> "export_docx"],
     [keyword |-> <<"w","o","r","d">>,    tool |-> "export_docx"],
     [keyword |-> <<"p","d","f">>,     tool |-> "export_pdf"],
     [keyword |-> <<"i","m","a","g","e">>,   tool |-> "generate_image"],
     [keyword |-> <<"d","r","a","w">>,    tool |-> "generate_image"],
     [keyword |-> <<"p","i","c","t","u","r","e">>, tool |-> "generate_image"] >>

KeywordsIn(u) == { k \in 1..Len(Priority) : Contains(Lower(u), Priority[k].keyword) }

PhrasesIn(text) ==
  { k \in 1..Len(_TOOL_TRIGGER_PHRASES) : Contains(text, _TOOL_TRIGGER_PHRASES[k]) }

\* C14: the forced tool is that of the first keyword, in the priority order
\* resize, crop, convert, docx/word, pdf, image/draw/picture, that occurs in
\* the lower-cased utterance, wherever it stands in the text; it is None
\* when no keyword occurs or the utterance is empty.
C14_ForcedToolByPriority ==
  \A f \in Flows :
    Triggered(flow[f]) =>
      LET u == Utterance(flow[f].body) IN
        flow[f].forced_tool_name =
          IF KeywordsIn(u) = {} THEN None ELSE Priority[Min(KeywordsIn(u))].tool

\* The utterance names pdf before resize and resize_image is forced.
C14_Witness ==
  \E f \in Flows :
    /\ Triggered(flow[f])
    /\ flow[f].body.message = <<"P","D","F"," ","r","e","s","i","z","e">>
    /\ flow[f].forced_tool_name = "resize_image"

\* C15 as stated: might-need-tools is true iff the lower-cased utterance
\* contains a trigger phrase, and an utterance without any trigger phrase
\* forces no tool.
C15_TriggerAsStated ==
  \A f \in Flows :
    Triggered(flow[f]) =>
      LET u == Utterance(flow[f].body) IN
        /\ flow[f].use_tools_this_turn <=> (PhrasesIn(Lower(u)) # {})
        /\ PhrasesIn(Lower(u)) = {} =>
             (flow[f].forced_tool_name = None /\ ~flow[f].use_tools_this_turn)

\* C15: might-need-tools is true iff the utterance, stripped and
\* lower-cased, contains a trigger phrase (false for an empty or blank
\* utterance); an utterance with no trigger phrase and no forced-tool
\* keyword forces no tool and leaves might-need-tools false.
C15_Trigger ==
  \A f \in Flows :
    Triggered(flow[f]) =>
      LET u == Utterance(flow[f].body) IN
        /\ flow[f].use_tools_this_turn <=> (PhrasesIn(Lower(Strip(u))) # {})
        /\ Strip(u) = <<>> => ~flow[f].use_tools_this_turn
        /\ (PhrasesIn(Lower(Strip(u))) = {} /\ KeywordsIn(u) = {}) =>
             (flow[f].forced_tool_name = None /\ ~flow[f].use_tools_this_turn)

\* An utterance in capitals, with white space and text around the phrase,
\* fired the trigger.
C15_Witness ==
  \E f \in Flows :
    /\ Triggered(flow[f])
    /\ flow[f].body.message = <<" ","M","a","k","e"," ","a"," ","P","D","F","\n">>
    /\ flow[f].use_tools_this_turn


\* ------------------------------------------------------------------------
\* The system prelude and the retrieval step
\* ------------------------------------------------------------------------
StartsWith(s, prefix) == Len(s) >= Len(prefix) /\ SubSeq(s, 1, Len(prefix)) = prefix

\* The generator has assembled input_messages for the flow's request.
Assembled(fl) == fl.input_messages # <<>>

\* The system messages at the head of the assembled input.
Prelude(fl) == SelectSeq(fl.input_messages, LAMBDA m : m.role = "system")

ContextMessages(fl) ==
  { k \in 1..Len(Prelude(fl)) : StartsWith(Prelude(fl)[k].content, <<"C","O","N","T","E","X","T",":">>) }

\* C16: the prelude holds a message starting with `CONTEXT:` iff retrieval
\* returned at least one chunk; when present it is the last system message,
\* after the two instruction messages and the persona/project block, and
\* the prelude is what the first provider request carries.
C16_ContextBlock ==
  \A f \in Flows :
    Assembled(flow[f]) =>
      LET fl  == flow[f]
          pre == Prelude(fl)
      IN  /\ (ContextMessages(fl) # {}) <=> (fl.retrieved # <<>>)
          /\ ContextMessages(fl) # {} =>
               /\ ContextMessages(fl) = {Len(pre)}
               /\ Len(pre) = 4
               /\ pre[1].content = rag_system_prompt(PersonaLoad(fl.agent_id))
               /\ pre[2].content = tool_instruction
               /\ Contains(pre[3].content, <<"*","*","*"," ","P","R","O","J","E","C","T"," ","*","*","*">>)
          /\ ContextMessages(fl) = {} => Len(pre) = 3
          /\ SubSeq(fl.input_messages, 1, Len(pre)) = pre
          /\ fl.requests # <<>> => SubSeq(fl.requests[1].messages, 1, Len(pre)) = pre

\* A request whose retrieval returned chunks was sent to the provider with
\* the context block as its fourth and last system message.
C16_Witness ==
  \E f \in Flows :
    /\ Assembled(flow[f])
    /\ flow[f].requests # <<>>
    /\ flow[f].retrieved # <<>>
    /\ ContextMessages(flow[f]) = {4}

\* The conversation the request carries: the agent's history with the new
\* user turn for a tracked request, body.messages otherwise.
Conversation(fl) ==
  IF fl.use_history
  THEN SubSeq(fl.input_messages, Len(Prelude(fl)) + 1, Len(fl.input_messages))
  ELSE fl.body.messages

\* C18: when the retrieval step raises, nothing is emitted before the first
\* provider request, the prelude has no context block, no sources event is
\* ever emitted, and the first provider request carries the prelude and the
\* conversation as it stands.
C18_RetrievalFailureDowngraded ==
  \A f \in Flows :
    flow[f].rag_raised =>
      LET fl == flow[f] IN
        /\ fl.requests # <<>>
        /\ \A i \in 1..Len(fl.emitted) : fl.emitted[i].round >= 1
        /\ ContextMessages(fl) = {}
        /\ fl.sources_payload = <<>>
        /\ CountEvents(fl.emitted, "sources") = 0
        /\ fl.requests[1].messages = Prelude(fl) \o Conversation(fl)
        /\ fl.use_history =>
             Last(Conversation(fl)) = ChatMessage("user", Strip(fl.body.message))

\* A flow whose retrieval raised has streamed a token and ended.
C18_Witness ==
  \E f \in Flows :
    /\ flow[f].rag_raised
    /\ flow[f].rag_calls = 1
    /\ flow[f].pc = "done"
    /\ flow[f].emitted[1].event = "token"


\* C17: a flow issues at most three provider requests and runs at most
\* three tool functions, at most one of them in each round.
C17_RoundsAndToolsBounded ==
  \A f \in Flows :
    LET fl == flow[f] IN
      /\ Len(fl.requests) <= 3
      /\ Len(fl.executed) <= 3
      /\ \A i, j \in 1..Len(fl.executed) :
           fl.executed[i].round = fl.executed[j].round => i = j

\* A flow ran a tool in each of three rounds, the last of them failing, and
\* ended without a fourth request.
C17_Witness ==
  \E f \in Flows :
    /\ flow[f].pc = "done"
    /\ Len(flow[f].requests) = 3
    /\ Len(flow[f].executed) = 3
    /\ CallFailed(flow[f])


\* ------------------------------------------------------------------------
\* Two concurrent flows of one agent
\* ------------------------------------------------------------------------
\* Both requests are history-tracked and name no agent (creative_director).
ConcBodies(f) ==
  { b \in Bodies :
      b.message = IF f = 1 THEN <<"h","i">> ELSE <<"p","l","e","a","s","e"," ","r","e","s","i","z","e"," ","t","h","i","s"," ","i","m","a","g","e">> }

\* The provider streams text to the first flow, text and calls of the
\* forced tool to the second.
ConcChunks(f) ==
  IF f = 1 THEN { Chunk(<<"a">>, <<>>) }
  ELSE { Chunk(<<"a">>, <<>>),
         Chunk(<<>>, << Fragment(0, "call_0", "resize_image", <<"{","\"","a","\"",":","1","}">>) >>) }

\* Retrieval finds nothing for either request.
ConcRag == { r \in RagOutcomes : r.key = "p1" /\ ~r.raised }

ConcStep(f) ==
  \/ chat_stream_with(f, ConcBodies(f), {TRUE})
  \/ generator_start_with(f, ConcRag)
  \/ \E chunk \in ConcChunks(f) : stream_chunk(f, chunk)
  \/ stream_raises(f)
  \/ stream_end(f)
  \/ after_tool(f)
  \/ after_error(f)
  \/ disconnect(f)

\* The generators run on one event loop: a step of one flow goes from one
\* of its suspension points to the next, and the flows interleave there.
ConcNext == \E f \in Flows : ConcStep(f)

ConcSpec == Init /\ [][ConcNext]_vars

\* C19: once the client of a flow has disconnected, no step issues a
\* provider request, runs a tool function or retrieval, emits an event or
\* appends to a history on behalf of that flow.
C19_Abandoned ==
  \A f \in Flows :
    flow[f].disconnected =>
      /\ flow'[f].disconnected
      /\ flow'[f].requests = flow[f].requests
      /\ flow'[f].executed = flow[f].executed
      /\ flow'[f].rag_calls = flow[f].rag_calls
      /\ flow'[f].appended = flow[f].appended
      /\ flow'[f].emitted = flow[f].emitted

RECURSIVE IsMerge(_, _, _)
IsMerge(h, s, t) ==
  IF h = <<>> THEN s = <<>> /\ t = <<>>
  ELSE \/ s # <<>> /\ Head(s) = Head(h) /\ IsMerge(Tail(h), Tail(s), t)
       \/ t # <<>> /\ Head(t) = Head(h) /\ IsMerge(Tail(h), s, Tail(t))

\* What a flow has appended to the history of an agent.
AppendedTo(f, agent) == IF flow[f].agent_id = agent THEN flow[f].appended ELSE <<>>

\* The text the provider streamed in a round, as the assistant turn records it.
RoundText(fl, r) ==
  Strip(Join([k \in 1..Len(SelectSeq(fl.received, LAMBDA x : x.round = r)) |->
                SelectSeq(fl.received, LAMBDA x : x.round = r)[k].content]))

\* The turns of a tracked flow that ran to its end: the user turn, then the
\* non-empty assistant turn of every round whose stream ended.
RECURSIVE AssistantTurns(_, _, _)
AssistantTurns(fl, r, last) ==
  IF r > last THEN <<>>
  ELSE (IF RoundText(fl, r) # <<>>
        THEN << ChatMessage("assistant", RoundText(fl, r)) >> ELSE <<>>)
         \o AssistantTurns(fl, r + 1, last)

TurnsOf(fl) ==
  << ChatMessage("user", Strip(fl.body.message)) >>
    \o AssistantTurns(fl, 1, IF HandlerRan(fl) THEN Len(fl.requests) - 1
                             ELSE Len(fl.requests))

\* C20: the history of every agent is an interleaving of what the two
\* flows have appended to it, so that no append is lost and each flow's turns
\* keep their order; a tracked flow that has ended has appended its user turn
\* and every non-empty assistant turn.
C20_NoAppendLost ==
  /\ \A agent \in DOMAIN AGENT_HISTORIES :
       IsMerge(AGENT_HISTORIES[agent], AppendedTo(1, agent), AppendedTo(2, agent))
  /\ \A f \in Flows :
       (flow[f].pc = "done" /\ flow[f].use_history) => flow[f].appended = TurnsOf(flow[f])

\* Both flows have ended with a user and an assistant turn each, and the
\* turns of the second flow lie between those of the first.
C20_Witness ==
  /\ flow[1].pc = "done" /\ flow[2].pc = "done"
  /\ flow[1].agent_id = flow[2].agent_id
  /\ Len(flow[1].appended) = 2 /\ Len(flow[2].appended) = 2
  /\ AGENT_HISTORIES[flow[1].agent_id]
       = << flow[1].appended[1], flow[2].appended[1], flow[2].appended[2], flow[1].appended[2] >>


\* ------------------------------------------------------------------------
\* One client sending request after request to one agent
\* ------------------------------------------------------------------------
\* main.py:87
MAX_HISTORY_ITEMS == 200

\* Turns in an agent's history up to which the client goes on sending.
MaxTurns == 201

\* The response has ended and the client sends its next request
\* (POST /chat/stream again): a new generator with fresh locals, the
\* module-level AGENT_HISTORIES as the previous flows left it.
next_request(f) ==
  /\ flow[f].pc \in {"done", "closed"}
  /\ Len(HistoryOf(AGENT_HISTORIES, flow[f].agent_id)) < MaxTurns
  /\ flow' = [flow EXCEPT ![f] = IdleFlow]
  /\ UNCHANGED <<AGENT_HISTORIES, history_dir, reply, wire>>

\* Tracked requests whose provider call fails or whose stream brings no text.
HistoryNext ==
  \/ chat_stream_with(1, AccumBodies, {TRUE})
  \/ generator_start_with(1, ConcRag)
  \/ stream_end(1)
  \/ after_error(1)
  \/ next_request(1)

HistorySpec == Init /\ [][HistoryNext]_vars

\* C11: the in-process history of an agent never holds more than
\* MAX_HISTORY_ITEMS turns.
C11_HistoryCapped ==
  \A agent \in DOMAIN AGENT_HISTORIES : Len(AGENT_HISTORIES[agent]) <= MAX_HISTORY_ITEMS


\* ------------------------------------------------------------------------
\* Two concurrent flows requested for different agent identifiers
\* ------------------------------------------------------------------------
\* Tracked requests without trigger or keyword. The first flow names no
\* agent or `Art-Director`; the second names `qa`, which is no persona and
\* falls back to creative_director, or `technical director`.
AgentBodies(f) ==
  IF f = 1
  THEN { [agent |-> a, message |-> <<"h","i">>, messages |-> <<>>, project_key |-> None] :
           a \in { NoneText, <<"A","r","t","-","D","i","r","e","c","t","o","r">> } }
  ELSE { [agent |-> a, message |-> <<"y","o">>, messages |-> <<>>, project_key |-> None] :
           a \in { <<"q","a">>, <<"t","e","c","h","n","i","c","a","l"," ","d","i","r","e","c","t","o","r">> } }

\* The provider streams a text of its own to each flow.
AgentChunks(f) == IF f = 1 THEN { Chunk(<<"a">>, <<>>) } ELSE { Chunk(<<"b">>, <<>>) }

AgentStep(f) ==
  \/ chat_stream_with(f, AgentBodies(f), {TRUE})
  \/ generator_start_with(f, ConcRag)
  \/ \E chunk \in AgentChunks(f) : stream_chunk(f, chunk)
  \/ stream_end(f)
  \/ after_error(f)

AgentNext == \E f \in Flows : AgentStep(f)

AgentSpec == Init /\ [][AgentNext]_vars

\* No turn that flow g appended is in a conversation flow f sent to the provider.
Separate(f, g) ==
  \A r \in 1..Len(flow[f].requests) :
    \A m \in 1..Len(flow[f].requests[r].messages) :
      \A k \in 1..Len(flow[g].appended) :
        flow[f].requests[r].messages[m] # flow[g].appended[k]

\* C21 as stated: every history holds the appends of the flows of its
\* identity only, and two flows requested for different agent identifiers
\* never share a history.
C21_AsStated ==
  /\ \A agent \in DOMAIN AGENT_HISTORIES :
       IsMerge(AGENT_HISTORIES[agent], AppendedTo(1, agent), AppendedTo(2, agent))
  /\ \A f, g \in Flows :
       (f # g /\ Assembled(flow[f]) /\ Assembled(flow[g])
        /\ flow[f].body.agent # flow[g].body.agent) => Separate(f, g)

C21_HistoriesByIdentity ==
  /\ DOMAIN AGENT_HISTORIES \subseteq AGENT_PERSONA_FILES
  /\ \A agent \in DOMAIN AGENT_HISTORIES :
       IsMerge(AGENT_HISTORIES[agent], AppendedTo(1, agent), AppendedTo(2, agent))
  /\ \A f, g \in Flows :
       (f # g /\ Assembled(flow[f]) /\ Assembled(flow[g])
        /\ flow[f].agent_id # flow[g].agent_id) => Separate(f, g)

C21_Frame ==
  \A f \in Flows :
    flow'[f] # flow[f] =>
      /\ \A agent \in DOMAIN AGENT_HISTORIES' :
           agent # flow'[f].agent_id =>
             /\ agent \in DOMAIN AGENT_HISTORIES
             /\ AGENT_HISTORIES'[agent] = AGENT_HISTORIES[agent]
      /\ (flow[f].pc = "start" /\ Assembled(flow'[f]) /\ flow'[f].use_history) =>
           Conversation(flow'[f]) = AGENT_HISTORIES'[flow'[f].agent_id]

\* C21 (amended): a flow reads and appends to the history keyed by its
\* normalised agent identity only; every step of a flow leaves the histories
\* of all other identities unchanged, and two flows whose identifiers
\* normalise to different identities never see each other's turns.
C21_OwnHistoryOnly == []C21_HistoriesByIdentity /\ [][C21_Frame]_vars

\* Flows for art_director and technical_director ran to their end side by
\* side; each history holds the two turns of its own flow.
C21_Witness ==
  /\ flow[1].pc = "done" /\ flow[2].pc = "done"
  /\ flow[1].agent_id = <<"a","r","t","_","d","i","r","e","c","t","o","r">>
  /\ flow[2].agent_id = <<"t","e","c","h","n","i","c","a","l","_","d","i","r","e","c","t","o","r">>
  /\ Len(flow[1].appended) = 2 /\ Len(flow[2].appended) = 2
  /\ AGENT_HISTORIES[flow[1].agent_id] = flow[1].appended
  /\ AGENT_HISTORIES[flow[2].agent_id] = flow[2].appended


\* ------------------------------------------------------------------------
\* The on-disk history snapshot (main.py:165-168, 217-253)
\* ------------------------------------------------------------------------
\* Largest number of messages a client saves in one request.
MaxSaved == 202

HISTORY_PREFIX == <<"f","e","e","d","_">>

\* The file of an agent id, under LOCAL_DATA_DIR/history.
get_history_path(agent_id) == HISTORY_PREFIX \o normalize_agent_id(agent_id) \o <<".","j","s","o","n">>

HistoryMessage(role, content) == [role |-> role, content |-> content]

\* Python slices s[:n] and s[-n:] for n > 0.
SliceFirst(s, n) == SubSeq(s, 1, IF Len(s) < n THEN Len(s) ELSE n)

\* Variant of SliceLast: the slice is taken from the front.
SliceLast_from_front(s, n) == SubSeq(s, 1, IF Len(s) < n THEN Len(s) ELSE n)

SliceLast(s, n) == SubSeq(s, IF Len(s) < n THEN 1 ELSE Len(s) - n + 1, Len(s))

\* str() of a non-negative integer.
RECURSIVE Decimal(_)
Decimal(n) == IF n < 10 THEN IntStr(n) ELSE Decimal(n \div 10) \o IntStr(n % 10)

\* A HistoryPayload of n messages, user and assistant in turn, each with a
\* content of its own.
Payload(tag, n) ==
  [messages |-> [i \in 1..n |-> HistoryMessage(IF i % 2 = 1 THEN "user" ELSE "assistant",
                                               tag \o Decimal(i))]]

HistoryPayloads ==
  { Payload(<<"a">>, n) : n \in {0, 1, MAX_HISTORY_ITEMS, MaxSaved} } \cup { Payload(<<"b">>, 2) }

\* The agent_id path parameters: two spellings of one persona and an unknown
\* name, which falls back to creative_director.
PathAgents == { <<"a","r","t","_","d","i","r","e","c","t","o","r">>, <<"A","r","t","-","D","i","r","e","c","t","o","r">>, <<"q","a">> }

\* The file system call of a handler succeeds or raises OSError.
FileOutcomes == {"ok", "raise"}

Reply(op, agent_id, sent, status, body) ==
  [op |-> op, agent_id |-> agent_id, sent |-> sent, status |-> status, body |-> body]

\* main.py:219-227: what get_chat_history reads from the directory.
HistoryRead(dir, agent_id) ==
  LET path == get_history_path(agent_id)
  IN  IF path \notin DOMAIN dir THEN <<>>
      ELSE LET data == dir[path].json
           IN  SliceFirst(IF "messages" \in DOMAIN data THEN data.messages ELSE <<>>,
                          MAX_HISTORY_ITEMS)

\* GET /chat/history/{agent_id} (main.py:217-229)
get_chat_history(agent_id, outcome) ==
  /\ reply' = IF outcome = "raise" /\ get_history_path(agent_id) \in DOMAIN history_dir
              THEN Reply("get", agent_id, <<>>, 500, [detail |-> "Failed to read history"])
              ELSE Reply("get", agent_id, <<>>, 200,
                         [messages |-> HistoryRead(history_dir, agent_id)])
  /\ UNCHANGED <<flow, AGENT_HISTORIES, history_dir, wire>>

\* POST /chat/history/{agent_id} (main.py:232-242)
save_chat_history(agent_id, body, outcome) ==
  LET path == get_history_path(agent_id)
      messages == SliceLast(body.messages, MAX_HISTORY_ITEMS)
      payload == [messages |-> messages]
  IN  /\ IF outcome = "raise"
         THEN /\ reply' = Reply("save", agent_id, body.messages, 500,
                                [detail |-> "Failed to write history"])
              /\ UNCHANGED history_dir
         ELSE /\ history_dir' = [p \in (DOMAIN history_dir) \cup {path} |->
                                   IF p = path THEN JsonDumps(payload) ELSE history_dir[p]]
              /\ reply' = Reply("save", agent_id, body.messages, 200,
                                [saved |-> TRUE, count |-> Len(messages)])
      /\ UNCHANGED <<flow, AGENT_HISTORIES, wire>>

\* DELETE /chat/history/{agent_id} (main.py:245-253)
clear_chat_history(agent_id, outcome) ==
  LET path == get_history_path(agent_id)
  IN  /\ IF outcome = "raise" /\ path \in DOMAIN history_dir
         THEN /\ reply' = Reply("clear", agent_id, <<>>, 500,
                                [detail |-> "Failed to delete history"])
              /\ UNCHANGED history_dir
         ELSE /\ history_dir' = [p \in (DOMAIN history_dir) \ {path} |-> history_dir[p]]
              /\ reply' = Reply("clear", agent_id, <<>>, 200, [deleted |-> TRUE])
      /\ UNCHANGED <<flow, AGENT_HISTORIES, wire>>

\* A client of the three history endpoints.
FileNext ==
  \E agent_id \in PathAgents, outcome \in FileOutcomes :
    \/ get_chat_history(agent_id, outcome)
    \/ \E body \in HistoryPayloads : save_chat_history(agent_id, body, outcome)
    \/ clear_chat_history(agent_id, outcome)

FileSpec == Init /\ [][FileNext]_vars


\* ------------------------------------------------------------------------
\* One client chatting with an agent and clearing its history in between
\* ------------------------------------------------------------------------
ClearAgents == { <<"c","r","e","a","t","i","v","e","_","d","i","r","e","c","t","o","r">> }

\* Tracked requests to creative_director in sequence, the client saving a
\* snapshot of the conversation and deleting it.
ClearNext ==
  \/ chat_stream_with(1, AccumBodies, {TRUE})
  \/ generator_start_with(1, ConcRag)
  \/ stream_end(1)
  \/ after_error(1)
  \/ next_request(1)
  \/ \E agent_id \in ClearAgents : save_chat_history(agent_id, Payload(<<"b">>, 2), "ok")
  \/ \E agent_id \in ClearAgents, outcome \in FileOutcomes :
       clear_chat_history(agent_id, outcome)

ClearSpec == Init /\ [][ClearNext]_vars

\* The DELETE request for an agent has just been answered with success.
Cleared(agent) ==
  /\ reply'.op = "clear" /\ reply'.status = 200
  /\ normalize_agent_id(reply'.agent_id) = agent
  /\ <<history_dir', reply'>> # <<history_dir, reply>>

C22_Clear ==
  /\ \A agent \in AGENT_PERSONA_FILES :
       Cleared(agent) => HistoryOf(AGENT_HISTORIES', agent) = <<>>
  /\ \A f \in Flows :
       (flow[f].pc = "start" /\ Assembled(flow'[f]) /\ flow'[f].use_history) =>
         Conversation(flow'[f])
           = Append(HistoryOf(AGENT_HISTORIES, flow'[f].agent_id),
                    ChatMessage("user", Strip(flow'[f].body.message)))

\* C22: when DELETE /chat/history/{agent_id} has answered, the in-process
\* history of the agent is empty, and a tracked flow sends the provider the
\* agent's history as it then stands followed by its own user message; so
\* the next tracked flow after a clear sends its own user message only.
C22_ClearEmptiesHistory == [][C22_Clear]_vars


\* A /chat/history request has just been answered.
Answered(op) ==
  /\ reply'.op = op
  /\ <<history_dir', reply'>> # <<history_dir, reply>>

\* The files of the other agent identities are as they were.
OtherFilesUnchanged(path) ==
  \A p \in ((DOMAIN history_dir) \cup (DOMAIN history_dir')) \ {path} :
    /\ p \in DOMAIN history_dir /\ p \in DOMAIN history_dir'
    /\ history_dir'[p] = history_dir[p]

C23_Step ==
  \A path \in {get_history_path(reply'.agent_id)}, sent \in {reply'.sent} :
      /\ (Answered("save") /\ reply'.status = 200) =>
           /\ \A b \in PathAgents :
                get_history_path(b) = path =>
                  \A loaded \in {HistoryRead(history_dir', b)} :
                      /\ Len(loaded) = IF Len(sent) < MAX_HISTORY_ITEMS THEN Len(sent)
                                       ELSE MAX_HISTORY_ITEMS
                      /\ \A i \in 1..Len(loaded) :
                           loaded[i] = sent[Len(sent) - Len(loaded) + i]
                      /\ reply'.body.count = Len(loaded)
           /\ OtherFilesUnchanged(path)
      /\ (Answered("clear") /\ reply'.status = 200) =>
           /\ \A b \in PathAgents :
                get_history_path(b) = path => HistoryRead(history_dir', b) = <<>>
           /\ OtherFilesUnchanged(path)
      /\ Answered("get") =>
           /\ history_dir' = history_dir
           /\ reply'.status = 200 =>
                reply'.body.messages = HistoryRead(history_dir, reply'.agent_id)
      /\ reply'.status = 500 => history_dir' = history_dir

C23_Loaded ==
  \A b \in PathAgents : Len(HistoryRead(history_dir, b)) <= MAX_HISTORY_ITEMS

\* C23: after a successful save of a list for an agent identity, load gives
\* the last MAX_HISTORY_ITEMS messages of the list (all of them if there are
\* fewer) in their order; after a successful clear it gives the empty list;
\* save and clear leave the files of the other identities as they were, and
\* load never gives more than MAX_HISTORY_ITEMS messages.
C23_Snapshot == []C23_Loaded /\ [][C23_Step]_vars

\* A load has answered with the last MAX_HISTORY_ITEMS messages of a longer
\* saved list while the other identity has a snapshot of its own.
C23_Witness ==
  /\ reply.op = "get" /\ reply.status = 200
  /\ Len(reply.body.messages) = MAX_HISTORY_ITEMS
  /\ reply.body.messages[1].content = <<"a">> \o Decimal(MaxSaved - MAX_HISTORY_ITEMS + 1)
  /\ \E p \in DOMAIN history_dir :
       /\ p # get_history_path(reply.agent_id)
       /\ Len(history_dir[p].json.messages) = 2


\* ------------------------------------------------------------------------
\* A provider that calls every tool of the allow-list
\* ------------------------------------------------------------------------
\* A tracked request that forces no tool and one that forces resize_image.
ToolBodies == { b \in Bodies : b.message \in { <<"h","i">>, <<"p","l","e","a","s","e"," ","r","e","s","i","z","e"," ","t","h","i","s"," ","i","m","a","g","e">> } }

\* A structured call of each allowed tool, with arguments that parse, and
\* one call whose arguments are malformed.
ToolChunks ==
  { Chunk(<<>>, << Fragment(0, "call_0", name, <<"{","\"","a","\"",":","1","}">>) >>) : name \in DOMAIN allowed_tools }
    \cup { Chunk(<<>>, << Fragment(0, "call_0", "crop_image", <<"{">>) >>) }

\* Retrieval finds nothing, or fails before tool_project_key is assigned.
ToolRag == { r \in RagOutcomes : r.chunks = <<>> /\ r.key \in {Unbound, "p1"} /\ (r.key = Unbound <=> r.raised) }

ToolStep(f) ==
  \/ chat_stream_with(f, ToolBodies, {TRUE})
  \/ generator_start_with(f, ToolRag)
  \/ \E chunk \in ToolChunks : stream_chunk(f, chunk)
  \/ stream_end(f)
  \/ after_tool(f)
  \/ after_error(f)

ToolNext == ToolStep(1)

ToolSpec == Init /\ [][ToolNext]_vars

ImageFamily == {"resize_image", "crop_image", "convert_image"}

C24_FailedToolEvent ==
  \A f \in Flows :
    LET fl == flow[f]
        name == fl.call.tool_name
    IN  (fl.pc = "after_tool" /\ CallFailed(fl)) =>
          /\ Last(fl.emitted).event = DispatchTable[name].event
          /\ Cardinality({ i \in 1..Len(fl.emitted) :
                             /\ fl.emitted[i].round = Len(fl.requests)
                             /\ fl.emitted[i].event # "token" }) = 1
          /\ IF name \in ImageFamily
             THEN /\ DOMAIN Last(fl.emitted).data.json = {"operation", "error"}
                  /\ Last(fl.emitted).data.json.operation = DispatchTable[name].operation
             ELSE DOMAIN Last(fl.emitted).data.json = {"error"}
          /\ fl.call.tool_content = Last(fl.emitted).data

C24_FedBack ==
  \A f \in Flows :
    (/\ flow[f].pc = "after_tool" /\ CallFailed(flow[f])
     /\ Len(flow'[f].requests) = Len(flow[f].requests) + 1) =>
       LET sent == Last(flow'[f].requests).messages
       IN  /\ Last(sent).role = "tool"
           /\ Last(sent).name = flow[f].call.tool_name
           /\ Last(sent).content = Last(flow[f].emitted).data

\* C24: a dispatched tool that fails is reported by one event, named as the
\* event of the tool's success; for resize_image, crop_image and
\* convert_image its payload is {operation, error} with the operation label
\* of the tool's success payload, for the other tools {error}; the same
\* payload is the content of the tool message of the next provider request.
C24_ToolErrorPayload == []C24_FailedToolEvent /\ [][C24_FedBack]_vars

\* crop_image ran and raised; the second request carries the tool message
\* with the operation label crop.
C24_Witness ==
  \E f \in Flows :
    /\ flow[f].pc = "streaming"
    /\ Len(flow[f].requests) = 2
    /\ Len(flow[f].executed) = 1
    /\ Last(flow[f].emitted).event = "image_updated"
    /\ Last(flow[f].requests[2].messages).role = "tool"
    /\ Last(flow[f].requests[2].messages).content
         = JsonDumps([operation |-> <<"c","r","o","p">>, error |-> "ToolError"])


\* ------------------------------------------------------------------------
\* The framing of an event (main.py:195-198)
\* ------------------------------------------------------------------------
\* Longest payload text handed to sse_event.
MaxPayload == 4

\* str.split(sep) for a separator of one character.
RECURSIVE Split(_, _)
Split(s, sep) ==
  LET at == { i \in 1..Len(s) : s[i] = sep }
  IN  IF at = {} THEN <<s>>
      ELSE <<SubSeq(s, 1, Min(at) - 1)>> \o Split(SubSeq(s, Min(at) + 1, Len(s)), sep)

\* Variant of sse_event: empty lines of the payload get no data line.
sse_event_skips_empty_lines(event, data) ==
  LET lines == SelectSeq(Split(data, "\n"), LAMBDA line : line # <<>>)
  IN  Join(<< <<"e","v","e","n","t",":"," ">> \o event \o <<"\n">> >>
           \o [k \in 1..Len(lines) |-> <<"d","a","t","a",":"," ">> \o lines[k] \o <<"\n">>]
           \o << <<"\n">> >>)

\* The texts in play are ASCII, which encode("utf-8") maps character by
\* character to one byte each.
sse_event(event, data) ==
  LET lines == Split(data, "\n")
  IN  Join(<< <<"e","v","e","n","t",":"," ">> \o event \o <<"\n">> >>
           \o [k \in 1..Len(lines) |-> <<"d","a","t","a",":"," ">> \o lines[k] \o <<"\n">>]
           \o << <<"\n">> >>)

\* The events whose payload is a text of the provider or of an exception, or
\* empty; the other events carry json.dumps output, which is one line.
EventNames == { <<"t","o","k","e","n">>, <<"e","r","r","o","r">>, <<"d","o","n","e">> }

PayloadChars == {"a", " ", "\n"}

\* Payload texts: every text of up to MaxPayload characters, among them the
\* empty text, blank lines, and lines that start or end with a space.
RECURSIVE TextsUpTo(_)
TextsUpTo(n) ==
  IF n = 0 THEN { <<>> }
  ELSE TextsUpTo(n - 1)
         \cup { Append(t, c) : t \in { u \in TextsUpTo(n - 1) : Len(u) = n - 1 },
                               c \in PayloadChars }

\* A yield of the response body: sse_event is called and its bytes are sent.
yield_sse_event(event, data) ==
  /\ wire' = [event |-> event, data |-> data, bytes |-> sse_event(event, data)]
  /\ UNCHANGED <<flow, AGENT_HISTORIES, history_dir, reply>>

SseNext == \E event \in EventNames, data \in TextsUpTo(MaxPayload) : yield_sse_event(event, data)

SseSpec == Init /\ [][SseNext]_vars

\* The lines of a byte text, each ended by a newline: the texts between the
\* newline at i and the next one.
LineEnds(bytes) == { i \in 1..Len(bytes) : bytes[i] = "\n" }

LineBefore(bytes, i) ==
  LET before == { j \in LineEnds(bytes) : j < i }
  IN  SubSeq(bytes, (IF before = {} THEN 0 ELSE Max(before)) + 1, i - 1)

FrameLines(bytes) ==
  LET ends == SortedKeys(LineEnds(bytes))
  IN  [k \in 1..Len(ends) |-> LineBefore(bytes, ends[k])]

\* C25: the bytes of sse_event(event, data) end with a newline and are, line
\* by line: `event: <event>`, one `data: <line>` for each line of the payload
\* (one more than the payload has newlines), and an empty line; the contents
\* of the data lines joined with newlines are the payload.
C25_Framing ==
  wire # NoWire =>
    \A L \in {FrameLines(wire.bytes)} :
      /\ wire.bytes[Len(wire.bytes)] = "\n"
      /\ Len(L) = Cardinality(LineEnds(wire.data)) + 3
      /\ L[1] = <<"e","v","e","n","t",":"," ">> \o wire.event
      /\ L[Len(L)] = <<>>
      /\ \A k \in 2..(Len(L) - 1) : StartsWith(L[k], <<"d","a","t","a",":"," ">>)
      /\ JoinWith(<<"\n">>, [k \in 1..(Len(L) - 2) |-> SubSeq(L[k + 1], 7, Len(L[k + 1]))])
           = wire.data

\* A payload with an empty line between two lines was framed into three
\* data lines.
C25_Witness ==
  /\ wire.data = <<"a","\n","\n","a">>
  /\ FrameLines(wire.bytes)
       = << <<"e","v","e","n","t",":"," ","t","o","k","e","n">>, <<"d","a","t","a",":"," ","a">>, <<"d","a","t","a",":"," ">>, <<"d","a","t","a",":"," ","a">>, <<>> >>


\* ------------------------------------------------------------------------
\* The tool offer of each round
\* ------------------------------------------------------------------------
\* A text, a call outside the allow-list and an allowed call: rounds end
\* without a call, with a rejected batch or with a dispatched tool.
RoundChunks ==
  { c \in FlowChunks :
      \/ c.content = <<"a">>
      \/ c.tool_calls # <<>> /\ c.tool_calls[1].id # None }

\* Every request body: with and without trigger phrase, with and without
\* forced-tool keyword.
RoundStep(f) ==
  \/ chat_stream_with(f, Bodies, {TRUE})
  \/ generator_start_with(f, ConcRag)
  \/ \E chunk \in RoundChunks : stream_chunk(f, chunk)
  \/ stream_end(f)
  \/ after_reject(f)
  \/ after_tool(f)
  \/ after_error(f)

RoundNext == RoundStep(1)

RoundSpec == Init /\ [][RoundNext]_vars

\* The trigger fired for the request: its utterance holds a trigger phrase.
TriggerFired(b) == PhrasesIn(Lower(Strip(Utterance(b)))) # {}

\* A tool name is forced for the request: its utterance holds a keyword.
ToolForced(b) == KeywordsIn(Utterance(b)) # {}

\* C26: the request of a round carries the tool definitions iff the trigger
\* fired for the utterance, or a tool name is forced, or the round is not
\* the first; a request without tool definitions carries no tool_choice,
\* one with them does.
C26_ToolOffer ==
  \A f \in Flows :
    \A r \in 1..Len(flow[f].requests) :
      LET req == flow[f].requests[r]
          b   == flow[f].body
      IN  /\ (req.tools # <<>>) <=> (TriggerFired(b) \/ ToolForced(b) \/ r > 1)
          /\ req.tools # <<>> => req.tools = get_tools
          /\ (req.tool_choice = <<>>) <=> (req.tools = <<>>)

\* A request without trigger phrase and keyword: the first round offered no
\* tools, the provider called one all the same, and the second round offers
\* the tools.
C26_Witness ==
  \E f \in Flows :
    /\ Len(flow[f].requests) = 2
    /\ ~TriggerFired(flow[f].body) /\ ~ToolForced(flow[f].body)
    /\ flow[f].requests[1].tools = <<>>
    /\ flow[f].requests[1].tool_choice = <<>>
    /\ flow[f].requests[2].tools = get_tools


\* C27: with no tool forced and the trigger fired, the first request says
\* tool_choice "required" and every later request of the flow says "auto";
\* with a tool name forced, every request names that tool; with neither,
\* a request that carries the tools says "auto".
C27_ToolChoice ==
  \A f \in Flows :
    \A r \in 1..Len(flow[f].requests) :
      LET req == flow[f].requests[r]
          b   == flow[f].body
      IN  IF ToolForced(b)
          THEN req.tool_choice
                 = <<"function", Priority[Min(KeywordsIn(Utterance(b)))].tool>>
          ELSE IF TriggerFired(b)
          THEN req.tool_choice = IF r = 1 THEN <<"required">> ELSE <<"auto">>
          ELSE req.tools # <<>> => req.tool_choice = <<"auto">>


\* ------------------------------------------------------------------------
\* Batches of several tool calls
\* ------------------------------------------------------------------------
\* Calls in three slots, arriving in any order: slot 0 outside the
\* allow-list, slots 1 and 2 allowed, and an argument fragment that makes
\* the arguments of slot 1 malformed.
BatchChunks ==
  { c \in FlowChunks : c.tool_calls # <<>> }
    \cup { Chunk(<<>>, << Fragment(2, "call_2", "export_docx", <<"{","}">>) >>) }

BatchStep(f) ==
  \/ chat_stream_with(f, AccumBodies, {TRUE})
  \/ generator_start_with(f, ToolRag)
  \/ \E chunk \in BatchChunks : stream_chunk(f, chunk)
  \/ stream_end(f)
  \/ after_reject(f)
  \/ after_tool(f)
  \/ after_error(f)

BatchNext == BatchStep(1)

BatchSpec == Init /\ [][BatchNext]_vars

\* The stream of the round has ended with at least one allowed call.
AllowedBatchEnded(fl) == fl.pc \in {"after_tool", "after_reject"} /\ SomeAllowed(fl)

\* The allowed call of the lowest slot.
Chosen(fl) ==
  fl.tool_call_map[Min({ i \in DOMAIN fl.tool_call_map :
                           fl.tool_call_map[i].function.name \in C2_AllowList })]

\* The events of the flow's current round that are no tokens.
RoundReports(fl) ==
  { i \in 1..Len(fl.emitted) :
      fl.emitted[i].round = Len(fl.requests) /\ fl.emitted[i].event # "token" }

\* C28 as stated: a round with an allowed call runs exactly one tool
\* function, for the allowed call of the lowest slot, and its one event is
\* that tool's.
C28_AsStated ==
  \A f \in Flows :
    AllowedBatchEnded(flow[f]) =>
      LET fl == flow[f] IN
        /\ Cardinality(ExecutedInRound(fl)) = 1
        /\ \A i \in ExecutedInRound(fl) : fl.executed[i].name = Chosen(fl).function.name
        /\ Cardinality(RoundReports(fl)) = 1
        /\ Last(fl.emitted).event = DispatchTable[Chosen(fl).function.name].event

\* The arguments text is one json.loads accepts (an empty text is not parsed).
ArgumentsParse(raw) == raw = <<>> \/ JsonLoads(raw).ok

\* C28 (amended): a round with an allowed call dispatches exactly one call,
\* the allowed call of the lowest slot whatever the arrival order; its tool
\* function runs once if its arguments parse and the project key step has
\* succeeded, otherwise no function runs; the round has one event, that of
\* the chosen call's tool, and no other call is run or reported.
C28_OneCallDispatched ==
  \A f \in Flows :
    AllowedBatchEnded(flow[f]) =>
      LET fl == flow[f] IN
        /\ fl.pc = "after_tool"
        /\ fl.call.tool_id = Chosen(fl).id
        /\ fl.call.tool_name = Chosen(fl).function.name
        /\ fl.call.raw_args = Chosen(fl).function.arguments
        /\ Cardinality(ExecutedInRound(fl)) <= 1
        /\ \A i \in ExecutedInRound(fl) :
             /\ fl.executed[i].name = Chosen(fl).function.name
             /\ fl.executed[i].args
                  = InjectProjectKey(JsonLoads(Chosen(fl).function.arguments).value,
                                     fl.tool_project_key)
        /\ (ExecutedInRound(fl) # {}) <=>
             (ArgumentsParse(Chosen(fl).function.arguments) /\ fl.tool_project_key # Unbound)
        /\ Cardinality(RoundReports(fl)) = 1
        /\ Last(fl.emitted).event = DispatchTable[Chosen(fl).function.name].event

\* The calls arrived in the order slot 2, slot 1, slot 0; export_pdf of
\* slot 1 ran, export_docx of slot 2 and export_xlsx of slot 0 did not.
C28_Witness ==
  \E f \in Flows :
    LET fl == flow[f] IN
      /\ fl.pc = "after_tool"
      /\ Len(fl.fragments) = 3
      /\ fl.fragments[1].index = 2 /\ fl.fragments[2].index = 1 /\ fl.fragments[3].index = 0
      /\ Len(fl.executed) = 1
      /\ fl.executed[1].name = "export_pdf"
      /\ Last(fl.emitted).event = "pdf_saved"


\* The messages appended to pending_messages after the initial ones.
Exchanged(fl) ==
  SubSeq(fl.pending_messages, Len(fl.input_messages) + 1, Len(fl.pending_messages))

\* Messages k-1 and k of s are an assistant message with exactly one tool
\* call and the tool message answering that call.
IsExchangePair(s, k) ==
  /\ s[k - 1].role = "assistant"
  /\ Len(s[k - 1].tool_calls) = 1
  /\ s[k].role = "tool"
  /\ s[k].tool_call_id = s[k - 1].tool_calls[1].id
  /\ s[k].name = s[k - 1].tool_calls[1].function.name

\* C29: pending_messages is the initial system prelude and conversation,
\* unchanged, followed by pairs (assistant message with exactly one tool
\* call, tool message with the id and name of that call); every round with
\* tool calls, dispatched or rejected, has appended exactly one pair before
\* the next provider request, which is sent the list with those pairs.
C29_PendingPairs ==
  \A f \in Flows :
    \A fl \in {flow[f]} :
      \A pairs \in {Exchanged(fl)} :
        /\ Len(fl.pending_messages) >= Len(fl.input_messages)
        /\ SubSeq(fl.pending_messages, 1, Len(fl.input_messages)) = fl.input_messages
        /\ Len(pairs) % 2 = 0
        /\ Len(pairs) \in { 2 * (Len(fl.requests) - 1), 2 * Len(fl.requests) }
        /\ Len(pairs) <= 2 * fl.tool_iterations
        /\ \A k \in 1..Len(pairs) : k % 2 = 0 => IsExchangePair(pairs, k)
        /\ \A r \in 1..Len(fl.requests) :
             fl.requests[r].messages
               = SubSeq(fl.pending_messages, 1, Len(fl.input_messages) + 2 * (r - 1))

\* The third request of a flow carries two pairs: the first for a rejected
\* batch, the second for the dispatched export_pdf call.
C29_Witness ==
  \E f \in Flows :
    LET fl == flow[f]
        n  == Len(fl.input_messages) IN
      /\ Len(fl.requests) = 3
      /\ Len(fl.requests[3].messages) = n + 4
      /\ fl.requests[3].messages[n + 1].tool_calls[1].function.name = "export_xlsx"
      /\ fl.requests[3].messages[n + 2].name = "export_xlsx"
      /\ fl.requests[3].messages[n + 3].tool_calls[1].function.name = "export_pdf"
      /\ fl.requests[3].messages[n + 4].tool_call_id = "call_1"


\* ------------------------------------------------------------------------
\* Textual recovery of a forced tool's call
\* ------------------------------------------------------------------------
\* Requests whose message holds a forced-tool keyword (generate_image for
\* "draw", resize_image for "resize"); both track history.
FallbackBodies == { b \in Bodies : _choose_tool_name(user_text_for_tools(b)) # None }

\* The provider streams text only: a plain text and textual calls of the
\* two forced tools, one of them with an empty object.
FallbackChunks ==
  { Chunk(<<"a">>, <<>>),
    Chunk(<<"g","e","n","e","r","a","t","e","_","i","m","a","g","e","(","{","\"","a","\"",":","1","}",")">>, <<>>),
    Chunk(<<"g","e","n","e","r","a","t","e","_","i","m","a","g","e","(","{","}",")">>, <<>>),
    Chunk(<<"r","e","s","i","z","e","_","i","m","a","g","e","(","{","\"","a","\"",":","1","}",")">>, <<>>) }

FallbackStep(f) ==
  \/ chat_stream_with(f, FallbackBodies, {TRUE})
  \/ generator_start_with(f, ConcRag)
  \/ \E chunk \in FallbackChunks : stream_chunk(f, chunk)
  \/ stream_end(f)
  \/ after_fallback(f)
  \/ after_error(f)

FallbackNext == FallbackStep(1)

FallbackSpec == Init /\ [][FallbackNext]_vars

\* The round of a flow with a forced tool has ended without a structured
\* tool call and without an error event.
ForcedRoundEnded(fl) ==
  /\ fl.pc \in {"after_fallback", "after_sources", "done"}
  /\ fl.api_key
  /\ Truthy(fl.forced_tool_name)
  /\ DOMAIN fl.tool_call_map = {}
  /\ \A i \in 1..Len(fl.emitted) : fl.emitted[i].event # "error"

\* C30: when the round of a forced tool brought no structured call and its
\* text holds `toolname(<json object>)` for the forced tool, whichever tool
\* it is, the tool has run exactly once with the extracted arguments, its
\* result event is emitted and no further provider request is made; without
\* such text nothing is executed.
C30_TextualRecovery ==
  \A f \in Flows :
    \A fl \in {flow[f]} :
      ForcedRoundEnded(fl) =>
        \A extracted \in {_extract_tool_args(RoundText(fl, Len(fl.requests)),
                                             fl.forced_tool_name)} :
          IF extracted.found
          THEN /\ Cardinality(ExecutedInRound(fl)) = 1
               /\ \A i \in ExecutedInRound(fl) :
                    /\ fl.executed[i].name = fl.forced_tool_name
                    /\ fl.executed[i].args
                         = InjectProjectKey(extracted.args, fl.tool_project_key)
               /\ \E i \in 1..Len(fl.emitted) :
                    /\ fl.emitted[i].round = Len(fl.requests)
                    /\ fl.emitted[i].event = DispatchTable[fl.forced_tool_name].event
          ELSE ExecutedInRound(fl) = {}


\* ------------------------------------------------------------------------
\* The in-flight assistant text
\* ------------------------------------------------------------------------
\* The stream of the flow's current round has ended (main.py:480 reached)
\* and assistant_text holds the text of that round.
RoundStreamEnded(fl) ==
  \/ fl.pc \in {"after_reject", "after_tool", "after_fallback"}
  \/ fl.pc \in {"after_sources", "done"} /\ fl.api_key /\ ~HandlerRan(fl)

\* The fragments emitted as token events in a round, in order.
TokensOfRound(fl, r) ==
  SelectSeq(fl.emitted, LAMBDA e : e.event = "token" /\ e.round = r)

\* C31: in every round, with or without history tracking, assistant_text
\* is the trimmed concatenation, in order, of the fragments emitted as
\* token events in that round.
C31_AssistantText ==
  \A f \in Flows :
    \A fl \in {flow[f]} :
      RoundStreamEnded(fl) =>
        \A tokens \in {TokensOfRound(fl, Len(fl.requests))} :
          fl.assistant_text = Strip(Join([k \in 1..Len(tokens) |-> tokens[k].data]))


\* ------------------------------------------------------------------------
\* Assistant turns of the history
\* ------------------------------------------------------------------------
\* A history-tracked request whose rounds stream a text, a blank, a call
\* outside the allow-list or an allowed call.
TurnNext ==
  \/ chat_stream_with(1, AccumBodies, {TRUE})
  \/ generator_start_with(1, ConcRag)
  \/ \E chunk \in { Chunk(<<"a">>, <<>>), Chunk(<<" ">>, <<>>) }
                     \cup { c \in RoundChunks : c.tool_calls # <<>> } :
       stream_chunk(1, chunk)
  \/ stream_end(1)
  \/ after_reject(1)
  \/ after_tool(1)
  \/ after_error(1)

TurnSpec == Init /\ [][TurnNext]_vars

\* The step is the end of the stream of a round of flow f (main.py:480).
StreamEnds(f) ==
  /\ flow[f].pc = "streaming"
  /\ flow'[f].pc \in {"after_reject", "after_tool", "after_fallback", "after_sources", "done"}

\* The step is the start of the generator of flow f (main.py:291).
GeneratorStarts(f) == flow[f].pc = "start" /\ flow'[f].pc # "start"

\* At the end of the stream of a round of a history-tracked flow the agent's
\* history grows by one assistant turn holding the round's trimmed text, or
\* by nothing if that text is empty; no other step but the start of a
\* generator changes a history.
C32_TurnAppended ==
  /\ \A f \in Flows :
       (StreamEnds(f) /\ flow[f].use_history) =>
         \A text \in {RoundText(flow[f], Len(flow[f].requests))} :
           AGENT_HISTORIES' =
             IF text # <<>>
             THEN HistoryAppend(AGENT_HISTORIES, flow[f].agent_id,
                                ChatMessage("assistant", text))
             ELSE AGENT_HISTORIES
  /\ (\A f \in Flows : ~StreamEnds(f) /\ ~GeneratorStarts(f))
       => AGENT_HISTORIES' = AGENT_HISTORIES

\* No history holds an assistant turn with empty content or a turn with a
\* role other than user and assistant.
C32_TurnsWellFormed ==
  \A agent \in DOMAIN AGENT_HISTORIES :
    \A k \in 1..Len(AGENT_HISTORIES[agent]) :
      /\ AGENT_HISTORIES[agent][k].role \in {"user", "assistant"}
      /\ AGENT_HISTORIES[agent][k].content # <<>>

\* C32: at the end of each round's stream of a history-tracked flow the
\* history grows by exactly one assistant turn with the round's full trimmed
\* text if it is non-empty and by nothing if it is empty; a history never
\* holds an assistant turn with empty content nor a tool or system turn.
C32_AssistantTurns == []C32_TurnsWellFormed /\ [][C32_TurnAppended]_vars

\* Two rounds: the first streamed only a blank before its tool call, the
\* second "a"; the history holds the user turn and the assistant turn of
\* round two.
C32_Witness ==
  \E f \in Flows :
    /\ flow[f].pc = "done"
    /\ flow[f].use_history
    /\ Len(flow[f].requests) = 2
    /\ \E k \in 1..Len(flow[f].received) :
         flow[f].received[k].round = 1 /\ flow[f].received[k].content = <<" ">>
    /\ RoundText(flow[f], 1) = <<>>
    /\ RoundText(flow[f], 2) = <<"a">>
    /\ HistoryOf(AGENT_HISTORIES, flow[f].agent_id)
         = << ChatMessage("user", <<"h","i">>), ChatMessage("assistant", <<"a">>) >>

\* ------------------------------------------------------------------------
\* No retry
\* ------------------------------------------------------------------------
\* Provider requests and streams that may raise, and tool calls that may
\* fail: a text and an export_pdf call whose arguments a later fragment
\* makes malformed.
RetryChunks == { c \in FlowChunks : c.content = <<"a">> \/ (c.tool_calls # <<>> /\ c.tool_calls[1].index = 1) }

RetryNext ==
  \/ chat_stream_with(1, AccumBodies, {TRUE})
  \/ generator_start_with(1, ToolRag)
  \/ \E chunk \in RetryChunks : stream_chunk(1, chunk)
  \/ stream_raises(1)
  \/ stream_end(1)
  \/ after_tool(1)
  \/ after_error(1)

RetrySpec == Init /\ [][RetryNext]_vars

\* Once an exception of the provider request or stream has reached the
\* handler the flow asks the provider no more and runs no tool; a tool
\* function is only called at the end of a round's stream, once, for a round
\* in which none was called before, whether or not the call fails; a
\* provider request is only issued at the start and after a round's tool
\* exchange, one at a time.
C33_Step ==
  \A f \in Flows :
    /\ HandlerRan(flow[f]) =>
         /\ flow'[f].requests = flow[f].requests
         /\ flow'[f].executed = flow[f].executed
    /\ flow'[f].executed # flow[f].executed =>
         /\ flow[f].pc = "streaming"
         /\ ExecutedInRound(flow[f]) = {}
         /\ Len(flow'[f].executed) = Len(flow[f].executed) + 1
         /\ SubSeq(flow'[f].executed, 1, Len(flow[f].executed)) = flow[f].executed
         /\ Last(flow'[f].executed).round = Len(flow[f].requests)
         /\ flow'[f].requests = flow[f].requests
    /\ flow'[f].requests # flow[f].requests =>
         /\ flow[f].pc \in {"start", "after_tool", "after_reject"}
         /\ Len(flow'[f].requests) = Len(flow[f].requests) + 1
         /\ SubSeq(flow'[f].requests, 1, Len(flow[f].requests)) = flow[f].requests

\* C33: no retry. After a provider request or stream raises the flow
\* issues no further provider request, and each accumulated tool call is
\* passed to its execution function at most once, also when it fails.
C33_NoRetry == [][C33_Step]_vars

\* export_pdf ran in round one and raised, the stream of round two raised:
\* the flow ended with two requests and one tool execution.
C33_Witness ==
  \E f \in Flows :
    /\ flow[f].pc = "done"
    /\ HandlerRan(flow[f])
    /\ Len(flow[f].requests) = 2
    /\ Len(flow[f].executed) = 1
    /\ flow[f].executed[1].round = 1
    /\ \E i \in 1..Len(flow[f].emitted) :
         flow[f].emitted[i].line = 612 /\ flow[f].emitted[i].event = "pdf_saved"
    /\ \E k \in 1..Len(flow[f].received) : flow[f].received[k].round = 2


\* ------------------------------------------------------------------------
\* Tool responses and the next round
\* ------------------------------------------------------------------------
\* The tool messages of pending_messages (their positions).
ToolMessages(fl) ==
  { k \in 1..Len(fl.pending_messages) : fl.pending_messages[k].role = "tool" }

\* Message k of pending_messages is part of a provider request of the flow.
Sent(fl, k) ==
  \E r \in 1..Len(fl.requests) :
    /\ Len(fl.requests[r].messages) >= k
    /\ fl.requests[r].messages[k] = fl.pending_messages[k]

\* C34 as stated: when a flow has emitted `done`, every tool message of its
\* pending conversation has been sent to the provider in a further round.
C34_AsStated ==
  \A f \in Flows :
    flow[f].pc = "done" => \A k \in ToolMessages(flow[f]) : Sent(flow[f], k)

\* The exchange appended on resumption after a round's tool or rejection
\* event is sent with the very next provider request, issued in the same
\* resumption, if the round was not the last of max_tool_iterations; after
\* the last round it is appended and no request follows.
C34_Resumed ==
  \A f \in Flows :
    (/\ flow[f].pc \in {"after_tool", "after_reject"}
     /\ flow'[f].pending_messages # flow[f].pending_messages)
    => /\ Len(flow'[f].pending_messages) = Len(flow[f].pending_messages) + 2
       /\ Last(flow'[f].pending_messages).role = "tool"
       /\ IF flow[f].tool_iterations < max_tool_iterations
          THEN /\ Len(flow'[f].requests) = Len(flow[f].requests) + 1
               /\ Last(flow'[f].requests).messages = flow'[f].pending_messages
          ELSE /\ flow'[f].requests = flow[f].requests
               /\ flow'[f].pc \in {"after_sources", "done"}

\* When the flow has emitted `done`, the tool messages that were never sent
\* are none, or the one of round max_tool_iterations.
C34_AtDone ==
  \A f \in Flows :
    \A fl \in {flow[f]} :
      (fl.pc = "done" /\ fl.requests # <<>>) =>
        /\ \A k \in ToolMessages(fl) :
             Sent(fl, k) <=> k <= Len(Last(fl.requests).messages)
        /\ Len(fl.pending_messages) - Len(Last(fl.requests).messages)
             = (IF fl.tool_iterations = max_tool_iterations /\ ~HandlerRan(fl)
                THEN 2 ELSE 0)

\* C34 (amended): every tool-response message appended after a round that
\* is not the last permitted one is sent to the provider with the next
\* request, before `done`; the tool response of the last permitted round
\* is appended and never sent.
C34_ToolResponseSent == []C34_AtDone /\ [][C34_Resumed]_vars

\* A flow ended after three rounds with tools: the responses of rounds one
\* and two were sent with requests two and three, the third was not sent.
C34_Witness ==
  \E f \in Flows :
    \A fl \in {flow[f]} :
      /\ fl.pc = "done"
      /\ Len(fl.requests) = 3
      /\ Cardinality(ToolMessages(fl)) = 3
      /\ Cardinality({ k \in ToolMessages(fl) : Sent(fl, k) }) = 2
      /\ ~Sent(fl, Len(fl.pending_messages))


\* ------------------------------------------------------------------------
\* Offered tools and the allow-list
\* ------------------------------------------------------------------------
\* The tool names a provider request offers.
Offered(request) == { request.tools[k] : k \in 1..Len(request.tools) }

\* C35: the tool names presented to the provider by get_tools() are the
\* orchestrator's allow-list: every offered tool is one the orchestrator
\* executes, and every allow-listed name is offered and has a dispatch
\* branch.
C35_OfferedAreAllowed ==
  \A f \in Flows :
    \A r \in 1..Len(flow[f].requests) :
      flow[f].requests[r].tools # <<>> =>
        /\ Offered(flow[f].requests[r]) = DOMAIN allowed_tools
        /\ DOMAIN allowed_tools \subseteq DOMAIN DispatchTable


\* ------------------------------------------------------------------------
\* The default project key at dispatch
\* ------------------------------------------------------------------------
\* C36: whenever a flow has reached tool dispatch (structured or textual)
\* tool_project_key has been assigned, so an allowed call with well-formed
\* arguments has had its tool function called, whether retrieval ran, was
\* skipped or failed: its event reports a failure only if that function
\* raised.
C36_KeyAssignedAtDispatch ==
  \A f \in Flows :
    \A fl \in {flow[f]} :
      fl.pc \in {"after_tool", "after_fallback"} =>
        /\ fl.tool_project_key # Unbound
        /\ (fl.pc = "after_tool" /\ ArgumentsParse(fl.call.raw_args))
             => ExecutedInRound(fl) # {}


\* ------------------------------------------------------------------------
\* The user turn and the snapshot of the conversation
\* ------------------------------------------------------------------------
\* The conversation part of the flow's first provider request.
FirstConversation(fl) ==
  SelectSeq(fl.requests[1].messages, LAMBDA m : m.role # "system")

\* s is an initial part of t.
IsPrefix(s, t) == Len(s) <= Len(t) /\ SubSeq(t, 1, Len(s)) = s

\* C37: in a history-tracked flow the user turn is appended and the
\* conversation for the provider is taken without a suspension point in
\* between: under every interleaving with another flow of the same agent
\* the conversation of the flow's first request ends with the flow's own
\* user message, preceded by what the history held when the flow started.
C37_OwnUserTurnLast ==
  \A f \in Flows :
    \A fl \in {flow[f]} :
      (fl.requests # <<>> /\ fl.use_history) =>
        \A conversation \in {FirstConversation(fl)} :
          /\ conversation # <<>>
          /\ Last(fl.requests[1].messages) = ChatMessage("user", Strip(fl.body.message))
          /\ Last(conversation) = fl.appended[1]
          /\ IsPrefix(conversation, HistoryOf(AGENT_HISTORIES, fl.agent_id))

\* The second flow started between the first flow's user turn and its
\* assistant turn: its first request holds the two user turns, its own last,
\* and the first flow's assistant turn came into the history afterwards.
C37_Witness ==
  /\ flow[1].requests # <<>> /\ flow[2].requests # <<>>
  /\ flow[1].agent_id = flow[2].agent_id
  /\ FirstConversation(flow[2]) = << flow[1].appended[1], flow[2].appended[1] >>
  /\ Len(flow[1].appended) = 2
  /\ HistoryOf(AGENT_HISTORIES, flow[2].agent_id)
       = << flow[1].appended[1], flow[2].appended[1], flow[1].appended[2] >>


\* ------------------------------------------------------------------------
\* Failing flows and the history
\* ------------------------------------------------------------------------
\* Turns in the agent's history up to which the client sends another request.
MaxPrior == 3

\* One client, one tracked request after the other; provider requests and
\* streams may raise, tools may fail.
RollbackNext ==
  \/ chat_stream_with(1, AccumBodies, {TRUE})
  \/ generator_start_with(1, ToolRag)
  \/ \E chunk \in RetryChunks : stream_chunk(1, chunk)
  \/ stream_raises(1)
  \/ stream_end(1)
  \/ after_tool(1)
  \/ after_error(1)
  \/ (Len(HistoryOf(AGENT_HISTORIES, flow[1].agent_id)) < MaxPrior /\ next_request(1))

RollbackSpec == Init /\ [][RollbackNext]_vars

\* The agent's history as the flow found it: the conversation of its first
\* request without the flow's own user turn.
HistoryBefore(fl) ==
  SubSeq(FirstConversation(fl), 1, Len(FirstConversation(fl)) - 1)

\* A tracked flow has ended through the outermost handler after its user
\* turn was appended.
FailedAfterUserTurn(fl) ==
  fl.pc = "done" /\ HandlerRan(fl) /\ fl.use_history /\ fl.appended # <<>>

\* After such a flow the history is the history before the flow, the user
\* turn and the assistant turns of the rounds whose stream ended.
C38_HistoryAfterFailure ==
  \A f \in Flows :
    \A fl \in {flow[f]} :
      FailedAfterUserTurn(fl) =>
        HistoryOf(AGENT_HISTORIES, fl.agent_id) = HistoryBefore(fl) \o TurnsOf(fl)

\* The step in which the exception is raised and the steps of the handler
\* take nothing out of a history: a raising start of the generator has
\* appended the user turn, every other such step leaves the histories as
\* they are.
C38_NothingUndone ==
  \A f \in Flows :
    (flow'[f].pc = "after_error" \/ flow[f].pc = "after_error") =>
      IF flow[f].pc = "start" /\ flow'[f].appended # <<>>
      THEN AGENT_HISTORIES' = HistoryAppend(AGENT_HISTORIES, flow'[f].agent_id,
                                            flow'[f].appended[1])
      ELSE AGENT_HISTORIES' = AGENT_HISTORIES

\* C38: history changes are not rolled back on failure. If a tracked flow
\* ends through the outermost exception boundary after its user turn was
\* appended, the agent's history is the history before the flow, that user
\* turn and the assistant turns of the completed rounds, and nothing else.
C38_NoRollback == []C38_HistoryAfterFailure /\ [][C38_NothingUndone]_vars

\* A second request to an agent whose history holds a user and an assistant
\* turn: round one streamed "a" and called a tool, the stream of round two
\* raised after another "a". The history holds four turns.
C38_Witness ==
  \E f \in Flows :
    \A fl \in {flow[f]} :
      /\ FailedAfterUserTurn(fl)
      /\ Len(HistoryBefore(fl)) = 2
      /\ Len(fl.requests) = 2
      /\ RoundText(fl, 1) = <<"a">>
      /\ RoundText(fl, 2) = <<"a">>
      /\ Len(HistoryOf(AGENT_HISTORIES, fl.agent_id)) = 4
      /\ HistoryOf(AGENT_HISTORIES, fl.agent_id)[4] = ChatMessage("assistant", <<"a">>)


\* ------------------------------------------------------------------------
\* Requests without history tracking
\* ------------------------------------------------------------------------
\* Requests of creative_director without a message or with a blank one,
\* with and without a `messages` list.
UntrackedBodies ==
  { b \in Bodies : ~use_history(b) }
    \cup { [agent |-> NoneText, message |-> <<" ">>,
            messages |-> << ChatMessage("user", <<"e","x","p","o","r","t"," ","i","t">>) >>,
            project_key |-> None] }

\* The first flow is history-tracked and fills the agent's history, the
\* second is not tracked; the provider streams a text to both and calls
\* export_pdf in the second.
UntrackedNext ==
  \E f \in {1, 2} :
    \/ chat_stream_with(f, IF f = 1 THEN AccumBodies ELSE UntrackedBodies, {TRUE})
    \/ generator_start_with(f, ConcRag)
    \/ \E chunk \in (IF f = 1 THEN AgentChunks(1) ELSE RetryChunks) : stream_chunk(f, chunk)
    \/ stream_end(f)
    \/ after_tool(f)
    \/ after_error(f)

UntrackedSpec == Init /\ [][UntrackedNext]_vars

\* The request of the flow has no message or a blank one.
Untracked(fl) == fl.pc # "idle" /\ (fl.body.message = NoneText \/ Strip(fl.body.message) = <<>>)

\* The messages of a provider request that are no system messages.
ConversationOf(request) == SelectSeq(request.messages, LAMBDA m : m.role # "system")

\* The conversation of every request of an untracked flow is the request's
\* `messages` list followed by the flow's own tool exchanges, and the flow
\* has appended nothing.
C39_ConversationFromMessages ==
  \A f \in Flows :
    \A fl \in {flow[f]} :
      Untracked(fl) =>
        /\ fl.appended = <<>>
        /\ \A r \in 1..Len(fl.requests) :
             \A conversation \in {ConversationOf(fl.requests[r])} :
               /\ IsPrefix(fl.body.messages, conversation)
               /\ Len(conversation) = Len(fl.body.messages) + 2 * (r - 1)
               /\ \A k \in (Len(fl.body.messages) + 1)..Len(conversation) :
                    \/ conversation[k].role = "tool"
                    \/ "tool_calls" \in DOMAIN conversation[k]

\* No step of an untracked flow changes a history.
C39_HistoriesLeft ==
  \A f \in Flows :
    (Untracked(flow[f]) /\ flow'[f] # flow[f]) => AGENT_HISTORIES' = AGENT_HISTORIES

\* C39: when the request's message is absent or blank, history tracking is
\* inactive: the flow leaves every agent's history unchanged and the
\* conversation sent to the provider is built from the request's `messages`
\* list only, not from the stored history.
C39_NoTracking == []C39_ConversationFromMessages /\ [][C39_HistoriesLeft]_vars

\* The agent's history holds the user and assistant turn of the first flow;
\* the second flow, with a blank message and one message in its list for the
\* same agent, streamed a text, had a tool call dispatched and sent its
\* second request with the exchange; the history still holds the two turns.
C39_Witness ==
  /\ flow[1].pc = "done" /\ flow[2].pc = "done"
  /\ flow[1].agent_id = flow[2].agent_id
  /\ flow[2].body.message = <<" ">>
  /\ Len(flow[2].body.messages) = 1
  /\ HistoryOf(AGENT_HISTORIES, flow[2].agent_id) = flow[1].appended
  /\ Len(flow[1].appended) = 2
  /\ Len(flow[2].requests) = 2
  /\ Len(flow[2].received) >= 1
  /\ Len(ConversationOf(flow[2].requests[1])) = 1
  /\ Len(ConversationOf(flow[2].requests[2])) = 3
  /\ flow[2].emitted[1].round = 1 /\ flow[1].emitted[1].round = 1

====
